---- MODULE Spec2Model ----
(***************************************************************************)
(* Mission lifecycle, karma ledger and deadline reminder sweep of the      *)
(* og-missions-bot.  The persistent store (SQLite tables users, missions,  *)
(* assignments, karma_log, events and the per-user state blobs kept in     *)
(* settings) is the state; every chat handler and the reminder sweep is    *)
(* one action.  Routers are included in main.py in the order start, ui,    *)
(* admin, missions, admin_users, basic, and the first handler whose filter *)
(* matches consumes the update.  A callback handler whose callback data is *)
(* always consumed by an earlier router (missions.mission_done_cb,         *)
(* missions.cb_postpone_days, missions.review_approve,                     *)
(* missions.review_reject, the report and done branches of                 *)
(* basic.mission_action) is not an action of Next.  Message handlers are   *)
(* kept as entry points whatever their position behind                     *)
(* ui.ai_or_text_capture.                                                  *)
(***************************************************************************)
EXTENDS Integers, Sequences, FiniteSets, Bags, TLC

(***************************************************************************)
(* Bounds of the model                                                     *)
(***************************************************************************)
MaxMissions == 1
MaxLog == 2
MaxEvents == 2
MaxNow == 158400
MaxExt == 1
MaxCalls == 3
MaxKarma == 6

(***************************************************************************)
(* Program constants                                                       *)
(***************************************************************************)
Hour == 3600
ADMIN_DELETE_PENALTY == 0 - 1
REWORK_PENALTY == 0 - 1
RankStep == 100
ActiveLimit == 10

Null == 0 - 1
NoUser == 0
Users == {1, 2, 3}
MissionIds == 1 .. MaxMissions

RANK_NAMES == << "Brodyaga", "Shpana", "Dvorovoy", "Byvaly", "Avtoritet",
                 "Mixtape Hustler", "Ulichny OG", "Platinovy Igrok",
                 "Big Ape", "Korol Kvartala", "Legenda Ulits" >>
NEGATIVE_RANK == "NEGATIVE"
BaseRank == RANK_NAMES[1]

STAGES == << [code |-> "24h", sec |-> 24 * Hour],
             [code |-> "5h", sec |-> 5 * Hour],
             [code |-> "1h", sec |-> 1 * Hour] >>

ActiveFetchStatuses == {"OPEN", "IN_PROGRESS", "WAIT_REPORT", "REVIEW"}
TerminalStatuses == {"DONE", "CANCELLED", "CANCELLED_ADMIN", "DECLINED"}

(***************************************************************************)
(* Inputs the handlers are driven with                                     *)
(***************************************************************************)
DifficultyInputs == {3}
DeadlineStamps == {1 * Hour, 26 * Hour}
TickSteps == {22 * Hour}
DaysInputs == {1, 4}
AmountInputs == {5}
AssigneeInputs == {2}
AuthorInputs == {1, 3}
ReporterInputs == {2, 3}

VARIABLES users, missions, assignments, karma_log, events, state, now, calls, reminders

vars == << users, missions, assignments, karma_log, events, state, now, calls, reminders >>

(***************************************************************************)
(* Pure helpers                                                            *)
(***************************************************************************)
Max(a, b) == IF a >= b THEN a ELSE b
Min(a, b) == IF a <= b THEN a ELSE b

(* a rank read off the nearest hundred instead of the hundred below *)
rank_for_nearest(karma) ==
    IF karma < 0 THEN NEGATIVE_RANK
    ELSE LET idx == (karma + 50) \div RankStep
         IN IF idx >= Len(RANK_NAMES) THEN RANK_NAMES[Len(RANK_NAMES)]
            ELSE RANK_NAMES[idx + 1]

rank_for(karma) ==
    IF karma < 0 THEN NEGATIVE_RANK
    ELSE LET idx == karma \div RankStep
         IN IF idx >= Len(RANK_NAMES) THEN RANK_NAMES[Len(RANK_NAMES)]
            ELSE RANK_NAMES[idx + 1]

(* a clamp that keeps the lower end only *)
_clamp_pts_open(x) == Max(1, IF x = 0 THEN 1 ELSE x)

_clamp_pts(x) == Max(1, Min(5, IF x = 0 THEN 1 ELSE x))

Entry(tg, delta, reason, mid) ==
    [tg_id |-> tg, delta |-> delta, reason |-> reason, mid |-> mid]

Event(kind, mid) == [kind |-> kind, mission_id |-> mid]

MissionIn(d, mid) == mid \in 1 .. Len(d.missions)

(* assignee ids of the rows of one mission, in insertion order *)
get_assignees_tg(d, mid) ==
    LET rows == SelectSeq(d.assignments, LAMBDA r : r.mission_id = mid)
    IN [i \in 1 .. Len(rows) |-> rows[i].assignee_tg_id]

(* the assignee column of the first joined row, 0 when there is none *)
_mission_row_assignee(d, mid) ==
    LET a == get_assignees_tg(d, mid)
    IN IF Len(a) = 0 THEN NoUser ELSE a[1]

(***************************************************************************)
(* The store.  DB is the current contents of the tables; every handler is  *)
(* an operator from a store to the store it leaves behind, and Step makes  *)
(* it the next state.                                                      *)
(***************************************************************************)
DB == [users |-> users, missions |-> missions, assignments |-> assignments,
       karma_log |-> karma_log, events |-> events, state |-> state,
       reminders |-> {}]

AbsInt(x) == IF x < 0 THEN 0 - x ELSE x

Bounded(d) ==
    /\ Len(d.missions) <= MaxMissions
    /\ BagCardinality(d.karma_log) <= MaxLog
    /\ BagCardinality(d.events) <= MaxEvents
    /\ \A m \in 1 .. Len(d.missions) : d.missions[m].extension_count <= MaxExt
    /\ \A x \in Users : AbsInt(d.users[x].karma) <= MaxKarma

Step(d) ==
    /\ Bounded(d)
    /\ users' = d.users
    /\ missions' = d.missions
    /\ assignments' = d.assignments
    /\ karma_log' = d.karma_log
    /\ events' = d.events
    /\ state' = d.state
    /\ reminders' = d.reminders
    /\ UNCHANGED << now, calls >>

(***************************************************************************)
(* Karma ledger                                                            *)
(***************************************************************************)
add_karma_commit(d, tg, delta, reason, mid) ==
    [d EXCEPT
       !.karma_log = @ (+) SetToBag({Entry(tg, delta, reason, mid)}),
       !.users = [x \in Users |->
                    IF x = tg /\ d.users[x].exists
                    THEN [d.users[x] EXCEPT !.karma = @ + delta]
                    ELSE d.users[x]]]

_recompute_rank_by_tg(d, tg) ==
    [d EXCEPT !.users = [x \in Users |->
                    IF x = tg /\ d.users[x].exists
                    THEN [d.users[x] EXCEPT !.rank = rank_for(d.users[x].karma)]
                    ELSE d.users[x]]]

add_karma_tg(d, tg, delta, reason, mid) ==
    _recompute_rank_by_tg(add_karma_commit(d, tg, delta, reason, mid), tg)

(* a reset that zeroes the users and keeps the ledger *)
reset_all_karma_keep_log(d) ==
    [d EXCEPT !.users = [x \in Users |->
                 [d.users[x] EXCEPT !.karma = 0, !.rank = "Brodyaga"]]]

(* one transaction: every user row to karma 0 and the rank written as a   *)
(* literal, every ledger row deleted                                       *)
reset_all_karma(d) ==
    [d EXCEPT !.users = [x \in Users |->
                 [d.users[x] EXCEPT !.karma = 0, !.rank = "Brodyaga"]],
              !.karma_log = EmptyBag]

RECURSIVE add_karma_each(_, _, _, _, _)
add_karma_each(d, tgs, delta, reason, mid) ==
    IF Len(tgs) = 0 THEN d
    ELSE add_karma_each(add_karma_tg(d, Head(tgs), delta, reason, mid),
                        Tail(tgs), delta, reason, mid)

apply_decline_penalty_flat(d, tg, difficulty, household) ==
    add_karma_tg(d, tg, 0 - 3, "decline", 0)

apply_decline_penalty(d, tg, difficulty, household) ==
    LET pen == IF household
               THEN (IF difficulty <= 1 THEN 0 - 3
                     ELSE IF difficulty = 2 THEN 0 - 4 ELSE 0 - 5)
               ELSE 0 - 2
    IN add_karma_tg(d, tg, pen, "decline", 0)

add_event(d, kind, mid) ==
    [d EXCEPT !.events = @ (+) SetToBag({Event(kind, mid)})]

set_status(d, mid, status) ==
    IF MissionIn(d, mid) THEN [d EXCEPT !.missions[mid].status = status] ELSE d

set_reminder_stage(d, mid, stage) ==
    IF MissionIn(d, mid) THEN [d EXCEPT !.missions[mid].reminder_stage = stage] ELSE d

is_admin(d, tg) == tg \in Users /\ d.users[tg].exists /\ d.users[tg].is_admin

update_state(d, tg, key, val) ==
    [d EXCEPT !.state[tg] = [k \in DOMAIN @ |-> IF k = key THEN val ELSE @[k]]]

pop_state_key(d, tg, key) == update_state(d, tg, key, 0)

(***************************************************************************)
(* Initial state: the schema exists, the configured admin has a row.       *)
(***************************************************************************)
NoState == [await_report_for_mid |-> 0, await_reject_reason_for_mid |-> 0,
            report_mid |-> 0]

Init ==
    /\ users = [x \in Users |->
                 [exists |-> (x \in {1, 2}), karma |-> 0, rank |-> BaseRank,
                  is_admin |-> (x = 1)]]
    /\ missions = << >>
    /\ assignments = << >>
    /\ karma_log = EmptyBag
    /\ events = EmptyBag
    /\ state = [x \in Users |-> NoState]
    /\ now = 0
    /\ calls = << >>
    /\ reminders = {}

(***************************************************************************)
(* Users                                                                   *)
(***************************************************************************)
ensure_user(d, u) ==
    IF d.users[u].exists THEN d
    ELSE [d EXCEPT !.users[u] = [exists |-> TRUE, karma |-> 0,
                                 rank |-> BaseRank, is_admin |-> FALSE]]

(***************************************************************************)
(* Mission creation                                                        *)
(***************************************************************************)
NewMission(deadline, difficulty, household) ==
    [deadline_ts |-> deadline,
     difficulty |-> difficulty, household |-> household,
     status |-> "OPEN", reminder_stage |-> "", extension_count |-> 0,
     closed_at |-> Null]

create_mission(d, author, assignee, deadline, difficulty, household) ==
    LET mid == Len(d.missions) + 1
    IN add_event(
         [d EXCEPT
            !.missions = Append(@, NewMission(deadline, difficulty, household)),
            !.assignments = Append(@, [mission_id |-> mid,
                                       assignee_tg_id |-> assignee])],
         "create", mid)

(* missions of one assignee whose status is outside `closed` *)
ActiveCount(d, tg, closed) ==
    Cardinality({m \in 1 .. Len(d.missions) :
        /\ d.missions[m].status \notin closed
        /\ \E i \in 1 .. Len(d.assignments) :
              /\ d.assignments[i].mission_id = m
              /\ d.assignments[i].assignee_tg_id = tg})

(* ai_confirm from the point where the assignee's active missions have    *)
(* been counted and the admin flag read                                    *)
ai_confirm_counted(d, active, admin, actor, assignee, deadline, points, household) ==
    IF active >= ActiveLimit /\ ~ admin
    THEN d
    ELSE create_mission(d, actor, assignee, deadline, _clamp_pts(points), household)

ai_confirm(d, actor, assignee, deadline, points, household) ==
    ai_confirm_counted(
        d, ActiveCount(d, assignee, {"DONE", "CANCELLED", "CANCELLED_ADMIN", "DECLINED"}),
        is_admin(d, actor), actor, assignee, deadline, points, household)

(* /add registers the sender and counts; its call classify(title, deadline)  *)
(* passes two arguments to a coroutine function of one, so it raises         *)
(* before create_mission and the handler answers that creation failed        *)
add_quick(d, actor, assignee, deadline, points, household) ==
    ensure_user(d, actor)

(* the 1..5 scale read off a text: a full track, counted snippets, a        *)
(* matched kind of work with its fixed points (0 when none matches), or one *)
(* point plus one for a keyword and one for a long text                      *)
_difficulty_from_text(full_track, snippets, category, keyword, long) ==
    IF full_track THEN 5
    ELSE IF snippets > 0 THEN Max(1, Min(5, snippets))
    ELSE IF category # 0 THEN category
    ELSE Max(1, Min(5, 1 + (IF keyword THEN 1 ELSE 0) + (IF long THEN 1 ELSE 0)))

_create_mission_from_text(d, actor, valid, assignee, deadline, points, household) ==
    IF ~ valid
    THEN add_event(add_karma_tg(d, actor, 0 - 1, "invalid_task", 0), "appeal", 0)
    ELSE create_mission(d, actor, assignee, deadline, points, household)

(***************************************************************************)
(* Accept / decline by the assignee (handlers/ui.py)                       *)
(***************************************************************************)
assign_accept(d, mid, actor) ==
    IF ~ MissionIn(d, mid) THEN d
    ELSE IF _mission_row_assignee(d, mid) # actor THEN d
    ELSE set_status(d, mid, "IN_PROGRESS")

assign_decline(d, mid, actor) ==
    IF ~ MissionIn(d, mid) THEN d
    ELSE IF _mission_row_assignee(d, mid) # actor THEN d
    ELSE LET diff == IF d.missions[mid].difficulty = 0 THEN 2
                     ELSE d.missions[mid].difficulty
         IN set_status(
              apply_decline_penalty(d, actor, diff, d.missions[mid].household),
              mid, "DECLINED")

(***************************************************************************)
(* Report submission (handlers/ui.py)                                      *)
(***************************************************************************)
cb_done_request_report(d, mid, actor) ==
    IF ~ MissionIn(d, mid) THEN d
    ELSE IF _mission_row_assignee(d, mid) # actor THEN d
    ELSE update_state(d, actor, "await_report_for_mid", mid)

receive_report(d, actor) ==
    LET mid == d.state[actor].await_report_for_mid
    IN IF mid = 0 THEN d
       ELSE IF ~ MissionIn(d, mid) \/ _mission_row_assignee(d, mid) # actor
       THEN pop_state_key(d, actor, "await_report_for_mid")
       ELSE pop_state_key(set_status(d, mid, "REVIEW"), actor, "await_report_for_mid")

(***************************************************************************)
(* Review by the admin (handlers/ui.py).  outcome is what the karma        *)
(* service call does: "ok", "fail_before_commit" (it raises before its     *)
(* transaction commits) or "fail_in_rank" (it raises in the rank           *)
(* recomputation, after the commit); fallback_ok is whether the direct     *)
(* UPDATE of the except branch succeeds.                                   *)
(***************************************************************************)
sql_karma_fallback(d, tg, pts) ==
    [d EXCEPT !.users = [x \in Users |->
                    IF x = tg /\ d.users[x].exists
                    THEN [d.users[x] EXCEPT !.karma = @ + pts]
                    ELSE d.users[x]]]

cb_review_approve(d, mid, actor, outcome, fallback_ok) ==
    IF mid = 0 \/ ~ MissionIn(d, mid) THEN d
    ELSE IF ~ is_admin(d, actor) THEN d
    ELSE LET d1 == set_status(d, mid, "DONE")
             assignee == _mission_row_assignee(d, mid)
             pts == _clamp_pts(d.missions[mid].difficulty)
         IN IF outcome = "ok"
            THEN add_karma_tg(d1, assignee, pts, "mission_done", mid)
            ELSE LET d2 == IF outcome = "fail_in_rank"
                           THEN add_karma_commit(d1, assignee, pts, "mission_done", mid)
                           ELSE d1
                 IN IF fallback_ok THEN sql_karma_fallback(d2, assignee, pts) ELSE d2

cb_review_reject(d, mid, actor) ==
    IF mid = 0 \/ ~ MissionIn(d, mid) THEN d
    ELSE IF ~ is_admin(d, actor) THEN d
    ELSE update_state(d, actor, "await_reject_reason_for_mid", mid)

(***************************************************************************)
(* Postponement (services/missions_service.py, handlers)                   *)
(***************************************************************************)
ClampDays(days) == Max(1, Min(3, IF days = 0 THEN 1 ELSE days))

(* a postponement that leaves the reminder stage where it was *)
postpone_days_keep_stage(d, mid, days_in, by, penalty, t) ==
    LET days == ClampDays(days_in)
    IN IF ~ MissionIn(d, mid) THEN d
       ELSE LET base == IF d.missions[mid].deadline_ts = Null
                           \/ d.missions[mid].deadline_ts = 0
                        THEN t ELSE d.missions[mid].deadline_ts
                d1 == [d EXCEPT !.missions[mid].deadline_ts = base + days * 24 * Hour,
                                !.missions[mid].extension_count = @ + 1]
                d2 == IF penalty # 0
                      THEN add_karma_each(d1, get_assignees_tg(d1, mid), penalty,
                                          "postpone_days", 0)
                      ELSE d1
            IN add_event(d2, "postpone_days", mid)

postpone_days(d, mid, days_in, by, penalty, t) ==
    LET days == ClampDays(days_in)
    IN IF ~ MissionIn(d, mid) THEN d
       ELSE LET base == IF d.missions[mid].deadline_ts = Null
                           \/ d.missions[mid].deadline_ts = 0
                        THEN t ELSE d.missions[mid].deadline_ts
                d1 == [d EXCEPT !.missions[mid].deadline_ts = base + days * 24 * Hour,
                                !.missions[mid].extension_count = @ + 1,
                                !.missions[mid].reminder_stage = ""]
                d2 == IF penalty # 0
                      THEN add_karma_each(d1, get_assignees_tg(d1, mid), penalty,
                                          "postpone_days", 0)
                      ELSE d1
            IN add_event(d2, "postpone_days", mid)

take_reject_reason(d, actor, t) ==
    LET mid == d.state[actor].await_reject_reason_for_mid
    IN IF mid = 0 THEN d
       ELSE IF ~ is_admin(d, actor)
       THEN pop_state_key(d, actor, "await_reject_reason_for_mid")
       ELSE IF ~ MissionIn(d, mid)
       THEN pop_state_key(d, actor, "await_reject_reason_for_mid")
       ELSE pop_state_key(
              postpone_days(set_status(d, mid, "REWORK"), mid, 1,
                            _mission_row_assignee(d, mid), 0, t),
              actor, "await_reject_reason_for_mid")

ui_cb_postpone_days_one_day(d, mid, days_s, actor, t) ==
    IF ~ MissionIn(d, mid) THEN d
    ELSE IF _mission_row_assignee(d, mid) # actor THEN d
    ELSE postpone_days(d, mid, 1, actor, 0 - 1, t)

ui_cb_postpone_days(d, mid, days_s, actor, t) ==
    LET days == ClampDays(days_s)
        penalty == IF days = 1 THEN 0 ELSE 0 - (days - 1)
    IN IF ~ MissionIn(d, mid) THEN d
       ELSE IF _mission_row_assignee(d, mid) # actor THEN d
       ELSE postpone_days(d, mid, days, actor, penalty, t)

(***************************************************************************)
(* Handlers of handlers/missions.py                                        *)
(***************************************************************************)
mark_done(d, mid) == add_event(set_status(d, mid, "REVIEW"), "done_sent", mid)

HasRow(d, mid, tg) ==
    \E i \in 1 .. Len(d.assignments) :
        d.assignments[i].mission_id = mid /\ d.assignments[i].assignee_tg_id = tg

mission_report_finish(d, action, mid, actor) ==
    IF action = "cancel" THEN d
    ELSE LET d1 == IF HasRow(d, mid, actor) THEN d
                   ELSE [d EXCEPT !.assignments =
                            Append(@, [mission_id |-> mid,
                                       assignee_tg_id |-> actor])]
         IN mark_done(d1, mid)

mission_cancel_cb(d, mid, actor) ==
    add_event(
      set_status(add_karma_each(d, get_assignees_tg(d, mid), 0 - 2, "cancel", 0),
                 mid, "CANCELLED"),
      "cancel", mid)

delete_with_penalty(d, mid, performer, actor) ==
    IF ~ is_admin(d, actor) THEN d
    ELSE LET d1 == add_event(set_status(d, mid, "CANCELLED_ADMIN"),
                             "admin_delete_penalty", mid)
         IN IF performer # 0
            THEN add_karma_tg(d1, performer, ADMIN_DELETE_PENALTY, "admin_delete", mid)
            ELSE d1

delete_no_penalty(d, mid, actor) ==
    IF ~ is_admin(d, actor) THEN d
    ELSE add_event(set_status(d, mid, "CANCELLED_ADMIN"), "admin_delete", mid)

admin_adjust_karma(d, sign, uid, amount, actor) ==
    IF ~ is_admin(d, actor) THEN d
    ELSE add_karma_tg(d, uid, IF sign = "+" THEN amount ELSE 0 - amount,
                      "admin_adjust", 0)

(***************************************************************************)
(* Legacy card buttons (handlers/basic.py)                                 *)
(***************************************************************************)
mission_action(d, mid, action, actor) ==
    IF action \in {"report", "done"}
    THEN set_status(update_state(d, actor, "report_mid", mid), mid, "REVIEW")
    ELSE IF action = "progress"
    THEN set_status(d, mid, "IN_PROGRESS")
    ELSE d

(***************************************************************************)
(* Deadline sweep (services/reminders.py)                                  *)
(***************************************************************************)
mark_overdue_and_penalize_silent(d, mid) ==
    IF ~ MissionIn(d, mid) THEN d
    ELSE LET penalty == IF d.missions[mid].extension_count >= 1
                        THEN 0 - 4 ELSE 0 - 3
             d1 == add_karma_each(d, get_assignees_tg(d, mid), penalty, "overdue", 0)
         IN [d1 EXCEPT !.missions[mid].status = "OVERDUE",
                       !.missions[mid].reminder_stage = "overdue"]

mark_overdue_and_penalize_flat(d, mid) ==
    IF ~ MissionIn(d, mid) THEN d
    ELSE LET d1 == add_karma_each(d, get_assignees_tg(d, mid), 0 - 3, "overdue", 0)
             d2 == [d1 EXCEPT !.missions[mid].status = "OVERDUE",
                              !.missions[mid].reminder_stage = "overdue"]
         IN add_event(d2, "overdue", mid)

mark_overdue_and_penalize(d, mid) ==
    IF ~ MissionIn(d, mid) THEN d
    ELSE LET penalty == IF d.missions[mid].extension_count >= 1
                        THEN 0 - 4 ELSE 0 - 3
             d1 == add_karma_each(d, get_assignees_tg(d, mid), penalty, "overdue", 0)
             d2 == [d1 EXCEPT !.missions[mid].status = "OVERDUE",
                              !.missions[mid].reminder_stage = "overdue"]
         IN add_event(d2, "overdue", mid)

_fetch_active_missions(d) ==
    {m \in 1 .. Len(d.missions) :
        /\ d.missions[m].deadline_ts # Null
        /\ d.missions[m].status \in ActiveFetchStatuses}

stage_order(stage) ==
    CASE stage = "" -> 0
      [] stage = "24h" -> 1
      [] stage = "5h" -> 2
      [] stage = "1h" -> 3
      [] stage = "overdue" -> 99
      [] OTHER -> 0

(* a stage comparison that lets the stage already reached count as due *)
DueStages_resend(left, stage) ==
    {idx \in 1 .. Len(STAGES) :
        left <= STAGES[idx].sec /\ stage_order(stage) <= idx}

(* indexes of STAGES whose reminder is due, the loop takes the first *)
DueStages(left, stage) ==
    {idx \in 1 .. Len(STAGES) :
        left <= STAGES[idx].sec /\ stage_order(stage) < idx}

CHECK_INTERVAL_SEC == 60

Reminder(mid, code) == [mission_id |-> mid, code |-> code]

(* a row as the loop's SELECT returns it *)
FetchedRow(d, mid) ==
    [id |-> mid, deadline_ts |-> d.missions[mid].deadline_ts,
     reminder_stage |-> d.missions[mid].reminder_stage]

(* the body of the loop for one fetched row m *)
sweep_row(d, m, t) ==
    LET stage == m.reminder_stage
        left == m.deadline_ts - t
    IN IF left <= 0 /\ stage # "overdue"
       THEN LET d1 == set_reminder_stage(mark_overdue_and_penalize(d, m.id),
                                         m.id, "overdue")
            IN [d1 EXCEPT !.reminders = @ \cup {Reminder(m.id, "overdue")}]
       ELSE IF DueStages(left, stage) = {} THEN d
       ELSE LET idx == CHOOSE i \in DueStages(left, stage) :
                          \A j \in DueStages(left, stage) : i <= j
                d1 == set_reminder_stage(d, m.id, STAGES[idx].code)
            IN [d1 EXCEPT !.reminders = @ \cup {Reminder(m.id, STAGES[idx].code)}]

(* the body of the loop for a mission read at the moment it is processed *)
sweep_mission(d, mid, t) == sweep_row(d, FetchedRow(d, mid), t)

RECURSIVE sweep_from(_, _, _, _)
sweep_from(d, fetched, mid, t) ==
    IF mid > Len(d.missions) THEN d
    ELSE sweep_from(IF mid \in fetched THEN sweep_mission(d, mid, t) ELSE d,
                    fetched, mid + 1, t)

(* one iteration of the loop; reminders holds what this iteration sent *)
start_reminders_loop(d, t) ==
    sweep_from(d, _fetch_active_missions(d), 1, t)

(***************************************************************************)
(* Actions: one per handler, inputs drawn from the sets above              *)
(***************************************************************************)
DeadlineInputs == {Null} \cup DeadlineStamps

(* ids carried by the buttons of the cards that were posted *)
CardIds == 1 .. Len(missions)

Start == \E u \in Users : Step(ensure_user(DB, u))

AiConfirm ==
    \E actor \in AuthorInputs, assignee \in AssigneeInputs, dl \in DeadlineInputs,
       pts \in DifficultyInputs, hh \in BOOLEAN :
        /\ users[actor].exists /\ users[assignee].exists
        /\ Len(missions) < MaxMissions
        /\ Step(ai_confirm(DB, actor, assignee, dl, pts, hh))

AddQuick ==
    \E actor \in AuthorInputs, assignee \in AssigneeInputs, dl \in DeadlineInputs,
       pts \in DifficultyInputs, hh \in BOOLEAN :
        /\ users[assignee].exists
        /\ Len(missions) < MaxMissions
        /\ Step(add_quick(DB, actor, assignee, dl, pts, hh))

CreateFromText ==
    \E actor \in AuthorInputs, assignee \in AssigneeInputs, valid \in BOOLEAN,
       dl \in DeadlineInputs,
       pts \in DifficultyInputs, hh \in BOOLEAN :
        /\ users[assignee].exists
        /\ valid => Len(missions) < MaxMissions
        /\ Step(_create_mission_from_text(DB, actor, valid, assignee, dl, pts, hh))

AssignAccept == \E mid \in CardIds, actor \in Users : Step(assign_accept(DB, mid, actor))

AssignDecline == \E mid \in CardIds, actor \in Users : Step(assign_decline(DB, mid, actor))

DoneRequestReport ==
    \E mid \in CardIds, actor \in Users : Step(cb_done_request_report(DB, mid, actor))

ReceiveReport == \E actor \in Users : Step(receive_report(DB, actor))

ReportFinish ==
    \E action \in {"send", "cancel"}, mid \in CardIds, actor \in ReporterInputs :
        Step(mission_report_finish(DB, action, mid, actor))

ReviewApprove ==
    \E mid \in CardIds, actor \in Users :
        Step(cb_review_approve(DB, mid, actor, "ok", TRUE))

ReviewReject ==
    \E mid \in CardIds, actor \in Users : Step(cb_review_reject(DB, mid, actor))

TakeRejectReason == \E actor \in Users : Step(take_reject_reason(DB, actor, now))

PostponeDays ==
    \E mid \in CardIds, days \in DaysInputs, actor \in Users :
        Step(ui_cb_postpone_days(DB, mid, days, actor, now))

MissionCancel ==
    \E mid \in CardIds, actor \in Users : Step(mission_cancel_cb(DB, mid, actor))

DeleteWithPenalty ==
    \E mid \in CardIds, actor \in Users :
        \E performer \in {0, _mission_row_assignee(DB, mid)} :
            Step(delete_with_penalty(DB, mid, performer, actor))

DeleteNoPenalty ==
    \E mid \in CardIds, actor \in Users : Step(delete_no_penalty(DB, mid, actor))

AdminAdjustKarma ==
    \E sign \in {"+", "-"}, uid \in Users, amount \in AmountInputs, actor \in Users :
        /\ users[uid].exists
        /\ Step(admin_adjust_karma(DB, sign, uid, amount, actor))

MissionAction ==
    \E mid \in CardIds, actor \in Users : Step(mission_action(DB, mid, "progress", actor))

Sweep == Step(start_reminders_loop(DB, now))

Tick ==
    \E s \in TickSteps :
        /\ now + s <= MaxNow
        /\ now' = now + s
        /\ reminders' = {}
        /\ UNCHANGED << users, missions, assignments, karma_log, events, state,
                        calls >>

Next ==
    \/ Start
    \/ AiConfirm
    \/ AddQuick
    \/ CreateFromText
    \/ AssignAccept
    \/ AssignDecline
    \/ DoneRequestReport
    \/ ReceiveReport
    \/ ReportFinish
    \/ ReviewApprove
    \/ ReviewReject
    \/ TakeRejectReason
    \/ PostponeDays
    \/ MissionCancel
    \/ DeleteWithPenalty
    \/ DeleteNoPenalty
    \/ AdminAdjustKarma
    \/ MissionAction

Spec == Init /\ [][Next]_vars

(***************************************************************************)
(* The deadline sweep with the clock, together with the handlers that      *)
(* write what the sweep reads: deadline, status, reminder stage, extension *)
(* count and assignment rows.                                              *)
(***************************************************************************)
SpecSweep ==
    Init /\ [][AiConfirm \/ AssignAccept \/ ReportFinish \/ PostponeDays
            \/ Sweep \/ Tick]_vars

(***************************************************************************)
(* The handlers with the failures of the karma service call inside the     *)
(* approve handler: the call raises before its transaction commits, or it  *)
(* raises in the rank recomputation after the commit; the direct UPDATE of *)
(* the except branch then succeeds or fails as well.                       *)
(***************************************************************************)
ReviewApproveFault ==
    \E mid \in CardIds, actor \in Users,
       outcome \in {"fail_before_commit", "fail_in_rank"}, fallback_ok \in BOOLEAN :
        Step(cb_review_approve(DB, mid, actor, outcome, fallback_ok))

SpecFaults ==
    Init /\ [][Next \/ ReviewApproveFault]_vars

(***************************************************************************)
(* Concurrent calls of add_karma_tg (services/karma.py).  Every call has   *)
(* its own connection; its INSERT opens the write transaction, its UPDATE  *)
(* computes karma + delta inside it, COMMIT publishes both, and the rank   *)
(* recomputation afterwards reads karma and writes rank on a second        *)
(* connection.  SQLite admits one write transaction at a time.             *)
(***************************************************************************)
CallTargets == {2}
CallDeltas == {0 - 2, 3}
SeedKarma == {0, 4}

Call(tg, delta) ==
    [tg_id |-> tg, delta |-> delta, pc |-> "begin", pending |-> 0, seen |-> 0]

InitKarma ==
    \E seed \in SeedKarma :
        /\ users = [x \in Users |->
                     [exists |-> (x \in {1, 2}),
                      karma |-> IF x = 2 THEN seed ELSE 0,
                      rank |-> BaseRank, is_admin |-> (x = 1)]]
        /\ karma_log = IF seed = 0 THEN EmptyBag
                       ELSE SetToBag({Entry(2, seed, "seed", 0)})
        /\ missions = << >>
        /\ assignments = << >>
        /\ events = EmptyBag
        /\ state = [x \in Users |-> NoState]
        /\ now = 0
        /\ calls = << >>
        /\ reminders = {}

InWriteTx(i) == calls[i].pc \in {"inserted", "updated"}

WriteLockAlwaysFree(i) == TRUE

WriteLockFree(i) == \A j \in 1 .. Len(calls) : j # i => ~ InWriteTx(j)

StoreKept == UNCHANGED << users, missions, assignments, karma_log, events, state,
                          now, reminders >>

KarmaCall ==
    \E tg \in CallTargets, delta \in CallDeltas :
        /\ Len(calls) < MaxCalls
        /\ calls' = Append(calls, Call(tg, delta))
        /\ StoreKept

KarmaInsert ==
    \E i \in 1 .. Len(calls) :
        /\ calls[i].pc = "begin"
        /\ WriteLockFree(i)
        /\ calls' = [calls EXCEPT ![i].pc = "inserted"]
        /\ StoreKept

KarmaUpdate ==
    \E i \in 1 .. Len(calls) :
        /\ calls[i].pc = "inserted"
        /\ calls' = [calls EXCEPT ![i].pc = "updated",
                                  ![i].pending = users[calls[i].tg_id].karma
                                                   + calls[i].delta]
        /\ StoreKept

KarmaCommit ==
    \E i \in 1 .. Len(calls) :
        LET c == calls[i]
        IN /\ c.pc = "updated"
           /\ karma_log' = karma_log (+) SetToBag({Entry(c.tg_id, c.delta, "call", i)})
           /\ users' = IF users[c.tg_id].exists
                        THEN [users EXCEPT ![c.tg_id].karma = c.pending]
                        ELSE users
           /\ calls' = [calls EXCEPT ![i].pc = "committed"]
           /\ UNCHANGED << missions, assignments, events, state, now, reminders >>

RankRead ==
    \E i \in 1 .. Len(calls) :
        /\ calls[i].pc = "committed"
        /\ calls' = [calls EXCEPT
                        ![i].pc = IF users[calls[i].tg_id].exists THEN "read" ELSE "done",
                        ![i].seen = users[calls[i].tg_id].karma]
        /\ StoreKept

RankWrite ==
    \E i \in 1 .. Len(calls) :
        /\ calls[i].pc = "read"
        /\ WriteLockFree(i)
        /\ users' = [users EXCEPT ![calls[i].tg_id].rank = rank_for(calls[i].seen)]
        /\ calls' = [calls EXCEPT ![i].pc = "done"]
        /\ UNCHANGED << missions, assignments, karma_log, events, state, now, reminders >>

SpecKarma ==
    InitKarma /\ [][KarmaCall \/ KarmaInsert \/ KarmaUpdate \/ KarmaCommit
                 \/ RankRead \/ RankWrite]_vars

(***************************************************************************)
(* Handlers as sequences of committed writes.  Every awaited database call *)
(* of a handler commits on its own connection, so between two of them      *)
(* another handler or the reminder loop can run, and the handler can be    *)
(* aborted.  A run is the list of the writes it still has to do, computed  *)
(* from what the handler read when it began; pre and full are the tables   *)
(* when it began and the tables the uninterrupted handler leaves behind.   *)
(***************************************************************************)
MaxTasks == 2

Tables(d) == << d.users, d.missions, d.assignments, d.karma_log, d.events >>

Write(op, mid, tg, arg, text) ==
    [op |-> op, mid |-> mid, tg |-> tg, arg |-> arg, text |-> text]

(* one committed write applied to the store *)
Apply(d, w) ==
    CASE w.op = "status" -> set_status(d, w.mid, w.text)
      [] w.op = "karma" -> add_karma_commit(d, w.tg, w.arg, w.text, w.mid)
      [] w.op = "rank" -> _recompute_rank_by_tg(d, w.tg)
      [] w.op = "event" -> add_event(d, w.text, w.mid)
      [] w.op = "status_event" -> add_event(set_status(d, w.mid, "CANCELLED_ADMIN"),
                                            w.text, w.mid)
      [] w.op = "overdue" ->
            IF MissionIn(d, w.mid)
            THEN [d EXCEPT !.missions[w.mid].status = "OVERDUE",
                           !.missions[w.mid].reminder_stage = "overdue"]
            ELSE d
      [] w.op = "stage" -> set_reminder_stage(d, w.mid, w.text)
      [] w.op = "deadline" ->
            IF MissionIn(d, w.mid)
            THEN [d EXCEPT !.missions[w.mid].deadline_ts = w.arg,
                           !.missions[w.mid].extension_count = @ + 1,
                           !.missions[w.mid].reminder_stage = ""]
            ELSE d
      [] OTHER -> d

(* the writes of add_karma_tg for every assignee in turn *)
RECURSIVE karma_writes(_, _, _, _)
karma_writes(tgs, delta, reason, mid) ==
    IF Len(tgs) = 0 THEN << >>
    ELSE << Write("karma", mid, Head(tgs), delta, reason),
            Write("rank", 0, Head(tgs), 0, "") >>
         \o karma_writes(Tail(tgs), delta, reason, mid)

approve_writes(d, mid, actor) ==
    IF mid = 0 \/ ~ MissionIn(d, mid) \/ ~ is_admin(d, actor) THEN << >>
    ELSE << Write("status", mid, 0, 0, "DONE") >>
         \o karma_writes(<< _mission_row_assignee(d, mid) >>,
                         _clamp_pts(d.missions[mid].difficulty), "mission_done", mid)

decline_writes(d, mid, actor) ==
    IF ~ MissionIn(d, mid) \/ _mission_row_assignee(d, mid) # actor THEN << >>
    ELSE LET diff == IF d.missions[mid].difficulty = 0 THEN 2
                     ELSE d.missions[mid].difficulty
             pen == IF d.missions[mid].household
                    THEN (IF diff <= 1 THEN 0 - 3
                          ELSE IF diff = 2 THEN 0 - 4 ELSE 0 - 5)
                    ELSE 0 - 2
         IN karma_writes(<< actor >>, pen, "decline", 0)
            \o << Write("status", mid, 0, 0, "DECLINED") >>

postpone_writes(d, mid, days_s, actor, t) ==
    IF ~ MissionIn(d, mid) \/ _mission_row_assignee(d, mid) # actor THEN << >>
    ELSE LET days == ClampDays(days_s)
             penalty == IF days = 1 THEN 0 ELSE 0 - (days - 1)
             base == IF d.missions[mid].deadline_ts = Null
                        \/ d.missions[mid].deadline_ts = 0
                     THEN t ELSE d.missions[mid].deadline_ts
         IN << Write("deadline", mid, 0, base + days * 24 * Hour, "") >>
            \o (IF penalty # 0
                THEN karma_writes(get_assignees_tg(d, mid), penalty, "postpone_days", 0)
                ELSE << >>)
            \o << Write("event", mid, 0, 0, "postpone_days") >>

delete_with_penalty_writes(d, mid, performer, actor) ==
    IF ~ is_admin(d, actor) THEN << >>
    ELSE << Write("status_event", mid, 0, 0, "admin_delete_penalty") >>
         \o (IF performer # 0
             THEN karma_writes(<< performer >>, ADMIN_DELETE_PENALTY, "admin_delete", mid)
             ELSE << >>)

(* the loop body of the reminder loop for one mission whose deadline passed *)
overdue_writes(d, mid, t) ==
    IF \/ mid \notin _fetch_active_missions(d)
       \/ d.missions[mid].deadline_ts - t > 0
       \/ d.missions[mid].reminder_stage = "overdue"
    THEN << >>
    ELSE LET penalty == IF d.missions[mid].extension_count >= 1
                        THEN 0 - 4 ELSE 0 - 3
         IN karma_writes(get_assignees_tg(d, mid), penalty, "overdue", 0)
            \o << Write("overdue", mid, 0, 0, ""),
                  Write("event", mid, 0, 0, "overdue"),
                  Write("stage", mid, 0, 0, "overdue") >>

Task(kind, mid, todo, full) ==
    [kind |-> kind, mid |-> mid, todo |-> todo, aborted |-> FALSE,
     overlap |-> \E j \in 1 .. Len(calls) :
                     calls[j].mid = mid /\ calls[j].todo # << >>,
     pre |-> Tables(DB), full |-> Tables(full)]

(* a handler begins: it has read its row and passed its checks *)
Begin(kind, mid, todo, full) ==
    /\ Len(calls) < MaxTasks
    /\ todo # << >>
    /\ calls' = Append([j \in 1 .. Len(calls) |->
                          IF calls[j].mid = mid /\ calls[j].todo # << >>
                          THEN [calls[j] EXCEPT !.overlap = TRUE]
                          ELSE calls[j]],
                       Task(kind, mid, todo, full))
    /\ StoreKept

ApproveBegin ==
    \E mid \in CardIds, actor \in Users :
        Begin("approve", mid, approve_writes(DB, mid, actor),
              cb_review_approve(DB, mid, actor, "ok", TRUE))

DeclineBegin ==
    \E mid \in CardIds, actor \in Users :
        Begin("decline", mid, decline_writes(DB, mid, actor),
              assign_decline(DB, mid, actor))

PostponeBegin ==
    \E mid \in CardIds, days \in DaysInputs, actor \in Users :
        Begin("postpone", mid, postpone_writes(DB, mid, days, actor, now),
              ui_cb_postpone_days(DB, mid, days, actor, now))

DeleteBegin ==
    \E mid \in CardIds, actor \in Users :
        \E performer \in {0, _mission_row_assignee(DB, mid)} :
            Begin("delete", mid, delete_with_penalty_writes(DB, mid, performer, actor),
                  delete_with_penalty(DB, mid, performer, actor))

OverdueBegin ==
    \E mid \in CardIds :
        Begin("overdue", mid, overdue_writes(DB, mid, now), sweep_mission(DB, mid, now))

(* the next write of a run commits *)
TaskStep ==
    \E i \in 1 .. Len(calls) :
        LET d == Apply(DB, Head(calls[i].todo))
        IN /\ calls[i].todo # << >>
           /\ Bounded(d)
           /\ users' = d.users
           /\ missions' = d.missions
           /\ assignments' = d.assignments
           /\ karma_log' = d.karma_log
           /\ events' = d.events
           /\ calls' = [calls EXCEPT ![i].todo = Tail(@)]
           /\ UNCHANGED << state, now, reminders >>

(* a run is aborted between two of its writes *)
TaskAbort ==
    \E i \in 1 .. Len(calls) :
        /\ calls[i].todo # << >>
        /\ calls' = [calls EXCEPT ![i].todo = << >>, ![i].aborted = TRUE]
        /\ StoreKept

SpecTasks ==
    Init /\ [][AiConfirm \/ Tick \/ ApproveBegin \/ DeclineBegin
            \/ PostponeBegin \/ DeleteBegin \/ OverdueBegin \/ TaskStep
            \/ TaskAbort]_vars

(***************************************************************************)
(* Decline and postponement over the whole range of difficulty and of the  *)
(* day count carried by the postpone buttons.                              *)
(***************************************************************************)
PolicyPoints == {1, 2, 3, 5}
PolicyDays == {1, 2, 3}

AiConfirmPolicy ==
    \E pts \in PolicyPoints, dl \in DeadlineInputs, hh \in BOOLEAN :
        /\ Len(missions) < MaxMissions
        /\ Step(ai_confirm(DB, 1, 2, dl, pts, hh))

PostponePolicy ==
    \E mid \in CardIds, days \in PolicyDays, actor \in Users :
        Step(ui_cb_postpone_days(DB, mid, days, actor, now))

SpecPolicy ==
    Init /\ [][AiConfirmPolicy \/ AssignAccept \/ AssignDecline
            \/ PostponePolicy]_vars

(***************************************************************************)
(* The creation paths with the values they can be handed: a draft whose    *)
(* points field holds anything, a /add command, a free text.               *)
(***************************************************************************)
DraftPoints == {0 - 2, 0, 3, 7}
TextCategories == {0, 2, 4}

AiConfirmDraft ==
    \E actor \in AuthorInputs, dl \in DeadlineInputs, pts \in DraftPoints,
       hh \in BOOLEAN :
        /\ users[actor].exists
        /\ Len(missions) < MaxMissions
        /\ Step(ai_confirm(DB, actor, 2, dl, pts, hh))

CreateFromTextDraft ==
    \E actor \in AuthorInputs, valid \in BOOLEAN, full \in BOOLEAN,
       sn \in {0, 7}, cat \in TextCategories, kw \in BOOLEAN, long \in BOOLEAN :
        /\ valid => Len(missions) < MaxMissions
        /\ Step(_create_mission_from_text(
                   DB, actor, valid, 2, Null,
                   _difficulty_from_text(full, sn, cat, kw, long), FALSE))

SpecCreate ==
    Init /\ [][Start \/ AiConfirmDraft \/ AddQuick \/ CreateFromTextDraft
                   \/ AssignAccept]_vars

(***************************************************************************)
(* The reminder loop as a task (services/reminders.py, main.py).  The      *)
(* startup hook creates the task once; the task sleeps, fetches the active *)
(* rows, processes them one by one and sleeps again.  calls holds the loop *)
(* tasks: pc is "sleep" or "sweep", queue the fetched rows not yet         *)
(* processed, t the time read at the start of the sweep.  The store starts *)
(* with LoopMissions missions created for user 2, each either still OPEN   *)
(* or sent for review and rejected by the admin (REWORK).                  *)
(***************************************************************************)
LoopMissions == 2

RECURSIVE Seeded(_, _, _)
Seeded(n, dls, rw) ==
    IF n = 0
    THEN [users |-> [x \in Users |->
                      [exists |-> (x \in {1, 2}), karma |-> 0,
                       rank |-> BaseRank, is_admin |-> (x = 1)]],
          missions |-> << >>, assignments |-> << >>, karma_log |-> EmptyBag,
          events |-> EmptyBag, state |-> [x \in Users |-> NoState],
          reminders |-> {}]
    ELSE LET d1 == ai_confirm(Seeded(n - 1, dls, rw), 1, 2, dls[n], 3, FALSE)
             d2 == mission_report_finish(d1, "send", n, 2)
         IN IF n \in rw
            THEN take_reject_reason(cb_review_reject(d2, n, 1), 1, 0)
            ELSE d1

InitLoop ==
    \E dls \in [1 .. LoopMissions -> DeadlineStamps],
       rw \in SUBSET (1 .. LoopMissions) :
        LET d == Seeded(LoopMissions, dls, rw)
        IN /\ users = d.users
           /\ missions = d.missions
           /\ assignments = d.assignments
           /\ karma_log = d.karma_log
           /\ events = d.events
           /\ state = d.state
           /\ now = 0
           /\ calls = << >>
           /\ reminders = {}

(* the rows of one SELECT, in id order *)
FetchedRows(d) ==
    SelectSeq([m \in 1 .. Len(d.missions) |-> FetchedRow(d, m)],
              LAMBDA r : r.id \in _fetch_active_missions(d))

(* a startup hook that runs a second time *)
StartupAgain ==
    /\ Len(calls) < 2
    /\ calls' = Append(calls, [pc |-> "sleep", queue |-> << >>, t |-> 0])
    /\ reminders' = {}
    /\ UNCHANGED << users, missions, assignments, karma_log, events, state,
                    now >>

Startup ==
    /\ calls = << >>
    /\ calls' = << [pc |-> "sleep", queue |-> << >>, t |-> 0] >>
    /\ reminders' = {}
    /\ UNCHANGED << users, missions, assignments, karma_log, events, state,
                    now >>

LoopFetch ==
    \E i \in 1 .. Len(calls) :
        /\ calls[i].pc = "sleep"
        /\ calls' = [calls EXCEPT ![i] = [pc |-> "sweep", queue |-> FetchedRows(DB), t |-> now]]
        /\ reminders' = {}
        /\ UNCHANGED << users, missions, assignments, karma_log, events, state,
                        now >>

LoopItem ==
    \E i \in 1 .. Len(calls) :
        /\ calls[i].pc = "sweep"
        /\ calls[i].queue # << >>
        /\ LET d == sweep_row(DB, Head(calls[i].queue), calls[i].t)
           IN /\ users' = d.users
              /\ missions' = d.missions
              /\ assignments' = d.assignments
              /\ karma_log' = d.karma_log
              /\ events' = d.events
              /\ state' = d.state
              /\ reminders' = d.reminders
        /\ calls' = [calls EXCEPT ![i].queue = Tail(@)]
        /\ UNCHANGED now

(* processing the head row raises: the except clause sits outside the for *)
LoopError ==
    \E i \in 1 .. Len(calls) :
        /\ calls[i].pc = "sweep"
        /\ calls[i].queue # << >>
        /\ calls' = [calls EXCEPT ![i] = [pc |-> "sleep", queue |-> << >>, t |-> calls[i].t]]
        /\ reminders' = {}
        /\ UNCHANGED << users, missions, assignments, karma_log, events, state,
                        now >>

LoopSleep ==
    \E i \in 1 .. Len(calls) :
        /\ calls[i].pc = "sweep"
        /\ calls[i].queue = << >>
        /\ calls' = [calls EXCEPT ![i] = [pc |-> "sleep", queue |-> << >>, t |-> calls[i].t]]
        /\ reminders' = {}
        /\ UNCHANGED << users, missions, assignments, karma_log, events, state,
                        now >>

SpecLoop ==
    InitLoop /\ [][Startup \/ LoopFetch \/ LoopItem \/ LoopError \/ LoopSleep
                     \/ Tick]_vars

(* the loop without failures, every step of the task scheduled fairly *)
SpecLoopFair ==
    /\ InitLoop
    /\ [][Startup \/ LoopFetch \/ LoopItem \/ LoopSleep \/ Tick]_vars
    /\ WF_vars(Startup)
    /\ WF_vars(LoopFetch)
    /\ WF_vars(LoopItem)
    /\ WF_vars(LoopSleep)

(***************************************************************************)
(* Confirmed drafts arriving together (handlers/ui.py, main.py).  Every    *)
(* webhook request feeds its update to the dispatcher on its own, so two   *)
(* ai:confirm callbacks interleave at their awaits: each counts the        *)
(* assignee's active missions, then creates.  The store starts with one    *)
(* mission less than the limit for user 2; calls holds the confirmations   *)
(* that have counted; the actors are not admins.                           *)
(***************************************************************************)
ConfirmActors == {2, 3}

InitLimit ==
    LET d == Seeded(ActiveLimit - 1, [n \in 1 .. ActiveLimit - 1 |-> Null], {})
    IN /\ users = d.users
       /\ missions = d.missions
       /\ assignments = d.assignments
       /\ karma_log = d.karma_log
       /\ events = d.events
       /\ state = d.state
       /\ now = 0
       /\ calls = << >>
       /\ reminders = {}

ConfirmCount ==
    \E actor \in ConfirmActors, assignee \in AssigneeInputs,
       deadline \in DeadlineInputs, points \in DifficultyInputs,
       household \in BOOLEAN :
        /\ Len(calls) < MaxTasks
        /\ calls' = Append(calls,
               [pc |-> "counted", actor |-> actor, assignee |-> assignee,
                deadline |-> deadline, points |-> points,
                household |-> household,
                active |-> ActiveCount(DB, assignee, TerminalStatuses),
                admin |-> is_admin(DB, actor)])
        /\ UNCHANGED << users, missions, assignments, karma_log, events, state,
                        now, reminders >>

ConfirmCreate ==
    \E i \in 1 .. Len(calls) :
        /\ calls[i].pc = "counted"
        /\ LET c == calls[i]
               d == ai_confirm_counted(DB, c.active, c.admin, c.actor,
                                       c.assignee, c.deadline, c.points,
                                       c.household)
           IN /\ users' = d.users
              /\ missions' = d.missions
              /\ assignments' = d.assignments
              /\ karma_log' = d.karma_log
              /\ events' = d.events
              /\ state' = d.state
              /\ calls' = [calls EXCEPT ![i].pc =
                              IF d.missions = missions THEN "refused"
                              ELSE "created"]
        /\ UNCHANGED << now, reminders >>

SpecLimit == InitLimit /\ [][ConfirmCount \/ ConfirmCreate]_vars

(***************************************************************************)
(* Extensions arriving together (services/missions_service.py).  The       *)
(* tiered postponement and the rework grace day write the count with one   *)
(* UPDATE that adds 1.  The legacy postpone_one_day first SELECTs the row, *)
(* refuses when the count it read is 1 or more, and otherwise writes the   *)
(* count 1; calls holds its invocations that have read the row.  The       *)
(* function is kept in the service module although no handler calls it.    *)
(* The callbacks arrive for the missions in MissionIds.                     *)
(***************************************************************************)
(* postpone_one_day after its SELECT returned the row m *)
postpone_one_day_write(d, mid, by, m) ==
    IF m.extension_count >= 1 THEN d
    ELSE LET d1 == [d EXCEPT !.missions[mid].deadline_ts = m.base + 24 * Hour,
                             !.missions[mid].extension_count = 1,
                             !.missions[mid].reminder_stage = ""]
             d2 == add_karma_each(d1, get_assignees_tg(d1, mid), 0 - 1,
                                  "postpone_1d", 0)
         IN add_event(d2, "postpone_1d", mid)

OneDayRead ==
    \E mid \in MissionIds :
        /\ Len(calls) < MaxTasks
        /\ calls' = Append(calls,
               [pc |-> "read", mid |-> mid,
                extension_count |-> missions[mid].extension_count,
                base |-> IF missions[mid].deadline_ts = Null THEN now
                         ELSE missions[mid].deadline_ts])
        /\ UNCHANGED << users, missions, assignments, karma_log, events, state,
                        now, reminders >>

OneDayWrite ==
    \E i \in 1 .. Len(calls) :
        /\ calls[i].pc = "read"
        /\ LET d == postpone_one_day_write(DB, calls[i].mid, 2, calls[i])
           IN /\ users' = d.users
              /\ missions' = d.missions
              /\ assignments' = d.assignments
              /\ karma_log' = d.karma_log
              /\ events' = d.events
              /\ state' = d.state
              /\ calls' = [calls EXCEPT ![i].pc =
                              IF d.missions = missions THEN "refused"
                              ELSE "done"]
        /\ UNCHANGED << now, reminders >>

PostponeTiered ==
    \E mid \in MissionIds, days \in PolicyDays :
        /\ missions[mid].extension_count <= MaxExt
        /\ LET d == ui_cb_postpone_days(DB, mid, days, 2, now)
           IN /\ users' = d.users
              /\ missions' = d.missions
              /\ assignments' = d.assignments
              /\ karma_log' = d.karma_log
              /\ events' = d.events
              /\ state' = d.state
        /\ UNCHANGED << now, calls, reminders >>

ReworkGrace ==
    \E mid \in MissionIds :
        /\ missions[mid].extension_count <= MaxExt
        /\ LET d == take_reject_reason(cb_review_reject(DB, mid, 1), 1, now)
           IN /\ users' = d.users
              /\ missions' = d.missions
              /\ assignments' = d.assignments
              /\ karma_log' = d.karma_log
              /\ events' = d.events
              /\ state' = d.state
        /\ UNCHANGED << now, calls, reminders >>

SpecExt ==
    InitLoop /\ [][OneDayRead \/ OneDayWrite \/ PostponeTiered
                      \/ ReworkGrace]_vars

(***************************************************************************)
(* rank_for on its own (services/ranking.py): a karma value is drawn, the  *)
(* function is applied to it, calls holds the value and the rank returned. *)
(***************************************************************************)
MaxRankKarma == 1250
KarmaInputs == (0 - MaxRankKarma) .. MaxRankKarma

InitRank ==
    LET d == Seeded(0, << >>, {})
    IN /\ users = d.users
       /\ missions = d.missions
       /\ assignments = d.assignments
       /\ karma_log = d.karma_log
       /\ events = d.events
       /\ state = d.state
       /\ now = 0
       /\ reminders = {}
       /\ \E k \in KarmaInputs : calls = << [karma |-> k, rank |-> ""] >>

RankFor ==
    /\ calls[1].rank = ""
    /\ calls' = << [karma |-> calls[1].karma, rank |-> rank_for(calls[1].karma)] >>
    /\ UNCHANGED << users, missions, assignments, karma_log, events, state,
                    now, reminders >>

SpecRank == InitRank /\ [][RankFor]_vars

(***************************************************************************)
(* reset_all_karma among the handlers that move karma: declines of         *)
(* missions of several difficulties and the admin's adjustments.           *)
(***************************************************************************)
ResetAll == Step(reset_all_karma(DB))

SpecReset ==
    Init /\ [][AiConfirmPolicy \/ AssignDecline \/ AdminAdjustKarma
                   \/ ResetAll]_vars

(***************************************************************************)
(* create_mission statement by statement (services/missions_service.py).   *)
(* The call opens its own connection, executes the INSERT of the mission,  *)
(* of the assignment and of the create event, and commits once; the first  *)
(* INSERT takes the database's write lock, which is held until the commit  *)
(* or until the connection is closed.  An exception before the commit      *)
(* closes the connection and the statements are rolled back.  calls holds  *)
(* the connections with the number of statements each has executed; the    *)
(* variables of the store are what every other connection reads.           *)
(***************************************************************************)
(* the store with the first n statements of a create_mission call c *)
create_mission_upto(d, c, n) ==
    LET mid == Len(d.missions) + 1
        d1 == [d EXCEPT !.missions =
                  Append(@, NewMission(c.deadline, c.difficulty, c.household))]
        d2 == [d1 EXCEPT !.assignments =
                  Append(@, [mission_id |-> mid, assignee_tg_id |-> c.assignee])]
    IN CASE n = 0 -> d
         [] n = 1 -> d1
         [] n = 2 -> d2
         [] OTHER -> add_event(d2, "create", mid)

(* a connection in autocommit mode: the mission row is published by its    *)
(* own INSERT                                                              *)
CreateExecuteAutocommit ==
    \E i \in 1 .. Len(calls) :
        /\ calls[i].pc = "tx"
        /\ calls[i].done < 3
        /\ \A j \in 1 .. Len(calls) :
              j # i => ~ (calls[j].pc = "tx" /\ calls[j].done >= 1)
        /\ missions' = IF calls[i].done = 0
                       THEN create_mission_upto(DB, calls[i], 1).missions
                       ELSE missions
        /\ calls' = [calls EXCEPT ![i].done = @ + 1]
        /\ UNCHANGED << users, assignments, karma_log, events, state, now,
                        reminders >>

CreateBegin ==
    \E author \in AuthorInputs, assignee \in AssigneeInputs,
       deadline \in DeadlineInputs, difficulty \in DifficultyInputs,
       household \in BOOLEAN :
        /\ Len(calls) < MaxTasks
        /\ calls' = Append(calls,
               [pc |-> "tx", done |-> 0, author |-> author,
                assignee |-> assignee, deadline |-> deadline,
                difficulty |-> difficulty, household |-> household])
        /\ UNCHANGED << users, missions, assignments, karma_log, events, state,
                        now, reminders >>

CreateExecute ==
    \E i \in 1 .. Len(calls) :
        /\ calls[i].pc = "tx"
        /\ calls[i].done < 3
        /\ \A j \in 1 .. Len(calls) :
              j # i => ~ (calls[j].pc = "tx" /\ calls[j].done >= 1)
        /\ calls' = [calls EXCEPT ![i].done = @ + 1]
        /\ UNCHANGED << users, missions, assignments, karma_log, events, state,
                        now, reminders >>

CreateCommit ==
    \E i \in 1 .. Len(calls) :
        /\ calls[i].pc = "tx"
        /\ calls[i].done = 3
        /\ LET d == create_mission_upto(DB, calls[i], 3)
           IN /\ missions' = d.missions
              /\ assignments' = d.assignments
              /\ events' = d.events
        /\ calls' = [calls EXCEPT ![i].pc = "committed"]
        /\ UNCHANGED << users, karma_log, state, now, reminders >>

(* a statement or the commit raises: the finally clause closes the         *)
(* connection without a commit                                             *)
CreateFail ==
    \E i \in 1 .. Len(calls) :
        /\ calls[i].pc = "tx"
        /\ calls' = [calls EXCEPT ![i].pc = "failed"]
        /\ UNCHANGED << users, missions, assignments, karma_log, events, state,
                        now, reminders >>

SpecCreateTx ==
    Init /\ [][CreateBegin \/ CreateExecute \/ CreateCommit \/ CreateFail]_vars

(***************************************************************************)
(* The estimator of services/karma_policy.py.  A text is read only through *)
(* the categories whose keywords it contains and through its length, so    *)
(* an input is the set of matched categories and the length.  The calls    *)
(* are made while users register, so that the store differs between two    *)
(* calls.                                                                  *)
(***************************************************************************)
MaxEstimates == 2
URGENCY_BONUS_TODAY == 1

(* the categories in the order the keyword table lists them *)
CATEGORY_KEYWORDS ==
    << "housekeeping", "record", "mix", "video", "design", "smm", "dev" >>

CATEGORY_BASE_DIFFICULTY ==
    [housekeeping |-> 1, smm |-> 2, design |-> 3, record |-> 3,
     video |-> 4, dev |-> 4, mix |-> 5]

TextInputs ==
    [matched : {{}, {"housekeeping", "mix"}, {"record", "dev"}, {"mix"},
                {"video"}, {"design", "smm"}, {"smm"}, {"dev"}},
     len : {10, 80, 81}]

(* the first category of the table with a keyword in the text *)
_match_category(text) ==
    IF \E i \in 1 .. Len(CATEGORY_KEYWORDS) : CATEGORY_KEYWORDS[i] \in text.matched
    THEN CATEGORY_KEYWORDS[
           CHOOSE i \in 1 .. Len(CATEGORY_KEYWORDS) :
               /\ CATEGORY_KEYWORDS[i] \in text.matched
               /\ \A j \in 1 .. i - 1 : CATEGORY_KEYWORDS[j] \notin text.matched]
    ELSE "housekeeping"

estimate_uncapped(text, due_today) ==
    LET cat == _match_category(text)
        base == Max(1, Min(5, CATEGORY_BASE_DIFFICULTY[cat]))
        diff == IF text.len > 80 THEN base + 1 ELSE base
        bonus == IF due_today THEN URGENCY_BONUS_TODAY ELSE 0
    IN [category |-> cat, difficulty |-> diff, base_points |-> diff,
        urgency_bonus |-> bonus, total_reward |-> diff + bonus]

estimate(text, due_today) ==
    LET cat == _match_category(text)
        base == Max(1, Min(5, CATEGORY_BASE_DIFFICULTY[cat]))
        diff == IF text.len > 80 THEN Min(5, base + 1) ELSE base
        bonus == IF due_today THEN URGENCY_BONUS_TODAY ELSE 0
    IN [category |-> cat, difficulty |-> diff, base_points |-> diff,
        urgency_bonus |-> bonus, total_reward |-> diff + bonus]

Estimate ==
    \E text \in TextInputs, due_today \in BOOLEAN :
        /\ Len(calls) < MaxEstimates
        /\ calls' = Append(calls, [text |-> text, due_today |-> due_today,
                                   decision |-> estimate(text, due_today)])
        /\ UNCHANGED << users, missions, assignments, karma_log, events, state,
                        now, reminders >>

SpecEstimate == Init /\ [][Start \/ Estimate]_vars

(***************************************************************************)
(* Tiered postponements arriving together (services/missions_service.py).  *)
(* postpone_days SELECTs the row, computes the new deadline from the       *)
(* deadline it read and writes it with one UPDATE that adds 1 to the       *)
(* count; every handler runs as its own task, so another postponement can  *)
(* commit between the SELECT and the UPDATE.  calls holds the invocations  *)
(* with the row they read.                                                 *)
(***************************************************************************)
(* postpone_days after its SELECT returned the row m *)
postpone_days_write(d, mid, days_in, by, penalty, m) ==
    LET days == ClampDays(days_in)
        d1 == [d EXCEPT !.missions[mid].deadline_ts = m.base + days * 24 * Hour,
                        !.missions[mid].extension_count = @ + 1,
                        !.missions[mid].reminder_stage = ""]
        d2 == IF penalty # 0
              THEN add_karma_each(d1, get_assignees_tg(d1, mid), penalty,
                                  "postpone_days", 0)
              ELSE d1
    IN add_event(d2, "postpone_days", mid)

PostponeRead ==
    \E mid \in MissionIds, days \in PolicyDays :
        /\ Len(calls) < MaxTasks
        /\ calls' = Append(calls,
               [pc |-> "read", mid |-> mid, days |-> ClampDays(days),
                extension_count |-> missions[mid].extension_count,
                base |-> IF missions[mid].deadline_ts = Null
                            \/ missions[mid].deadline_ts = 0
                         THEN now ELSE missions[mid].deadline_ts])
        /\ UNCHANGED << users, missions, assignments, karma_log, events, state,
                        now, reminders >>

PostponeWrite ==
    \E i \in 1 .. Len(calls) :
        /\ calls[i].pc = "read"
        /\ LET days == calls[i].days
               d == postpone_days_write(DB, calls[i].mid, days, 2,
                        IF days = 1 THEN 0 ELSE 0 - (days - 1), calls[i])
           IN /\ users' = d.users
              /\ missions' = d.missions
              /\ assignments' = d.assignments
              /\ karma_log' = d.karma_log
              /\ events' = d.events
              /\ state' = d.state
        /\ calls' = [calls EXCEPT ![i].pc = "done"]
        /\ UNCHANGED << now, reminders >>

SpecPostpone == InitLoop /\ [][PostponeRead \/ PostponeWrite]_vars

(***************************************************************************)
(* Sends that fail (services/reminders.py, handlers/ui.py).  _send_dm and  *)
(* _notify_group swallow the exception of a failed send, so the loop body  *)
(* goes on to its next statement; delivered tells whether the sends for a  *)
(* mission arrive.  reminders holds what a sweep delivered, calls the      *)
(* reminders the last sweep tried to send and lost.                        *)
(***************************************************************************)
(* a loop body that leaves the stage alone when the send failed *)
sweep_row_retry(d, m, t, delivered) ==
    LET stage == m.reminder_stage
        left == m.deadline_ts - t
    IN IF left <= 0 /\ stage # "overdue"
       THEN LET d0 == mark_overdue_and_penalize(d, m.id)
                d1 == set_reminder_stage(d0, m.id, "overdue")
            IN IF delivered
               THEN [d1 EXCEPT !.reminders = @ \cup {Reminder(m.id, "overdue")}]
               ELSE set_reminder_stage(d0, m.id, stage)
       ELSE IF DueStages(left, stage) = {} THEN d
       ELSE LET idx == CHOOSE i \in DueStages(left, stage) :
                          \A j \in DueStages(left, stage) : i <= j
            IN IF delivered
               THEN [set_reminder_stage(d, m.id, STAGES[idx].code)
                       EXCEPT !.reminders = @ \cup {Reminder(m.id, STAGES[idx].code)}]
               ELSE d

(* the body of the loop for one fetched row m and the outcome of its sends *)
sweep_row_sent(d, m, t, delivered) ==
    LET stage == m.reminder_stage
        left == m.deadline_ts - t
    IN IF left <= 0 /\ stage # "overdue"
       THEN LET d1 == set_reminder_stage(mark_overdue_and_penalize(d, m.id),
                                         m.id, "overdue")
            IN IF delivered
               THEN [d1 EXCEPT !.reminders = @ \cup {Reminder(m.id, "overdue")}]
               ELSE d1
       ELSE IF DueStages(left, stage) = {} THEN d
       ELSE LET idx == CHOOSE i \in DueStages(left, stage) :
                          \A j \in DueStages(left, stage) : i <= j
                d1 == set_reminder_stage(d, m.id, STAGES[idx].code)
            IN IF delivered
               THEN [d1 EXCEPT !.reminders = @ \cup {Reminder(m.id, STAGES[idx].code)}]
               ELSE d1

RECURSIVE sweep_from_sent(_, _, _, _, _)
sweep_from_sent(d, fetched, mid, t, ok) ==
    IF mid > Len(d.missions) THEN d
    ELSE sweep_from_sent(IF mid \in fetched
                         THEN sweep_row_sent(d, FetchedRow(d, mid), t, ok[mid])
                         ELSE d,
                         fetched, mid + 1, t, ok)

(* a handler that sends first and stops when the send raises *)
ui_handler_send_first(kind, d, mid, actor, t, delivered) ==
    IF ~ delivered THEN d
    ELSE CASE kind = "accept" -> assign_accept(d, mid, actor)
           [] kind = "decline" -> assign_decline(d, mid, actor)
           [] kind = "report" ->
                receive_report(cb_done_request_report(d, mid, actor), actor)
           [] kind = "approve" -> cb_review_approve(d, mid, actor, "ok", TRUE)
           [] kind = "reject" ->
                take_reject_reason(cb_review_reject(d, mid, actor), actor, t)
           [] kind = "postpone" -> ui_cb_postpone_days(d, mid, 2, actor, t)

(* a ui handler that ends in a transition and the outcome of its sends:    *)
(* each makes its writes first; _notify_multi and the group posts catch a  *)
(* failed send, and the edit of the pressed message, which raises when it  *)
(* fails, is the last statement or is followed by sends only               *)
ui_handler_sent(kind, d, mid, actor, t, delivered) ==
    CASE kind = "accept" -> assign_accept(d, mid, actor)
      [] kind = "decline" -> assign_decline(d, mid, actor)
      [] kind = "report" ->
           receive_report(cb_done_request_report(d, mid, actor), actor)
      [] kind = "approve" -> cb_review_approve(d, mid, actor, "ok", TRUE)
      [] kind = "reject" ->
           take_reject_reason(cb_review_reject(d, mid, actor), actor, t)
      [] kind = "postpone" -> ui_cb_postpone_days(d, mid, 2, actor, t)

HandlerKinds == {"accept", "decline", "report", "approve", "reject", "postpone"}

(* the handlers that keep a mission among the rows the loop fetches, or    *)
(* close it with a reward                                                  *)
HandlerSent ==
    \E kind \in {"accept", "report", "approve"}, mid \in CardIds,
       actor \in Users, delivered \in BOOLEAN :
        LET d == ui_handler_sent(kind, DB, mid, actor, now, delivered)
        IN /\ d.missions # missions
           /\ Step(d)

SweepSent ==
    \E ok \in [1 .. MaxMissions -> BOOLEAN] :
        LET d == sweep_from_sent(DB, _fetch_active_missions(DB), 1, now, ok)
            tried == sweep_from_sent(DB, _fetch_active_missions(DB), 1, now,
                                     [m \in 1 .. MaxMissions |-> TRUE])
        IN /\ Bounded(d)
           /\ users' = d.users
           /\ missions' = d.missions
           /\ assignments' = d.assignments
           /\ karma_log' = d.karma_log
           /\ events' = d.events
           /\ state' = d.state
           /\ reminders' = d.reminders
           /\ calls' = << tried.reminders \ d.reminders >>
           /\ UNCHANGED now

(* the admin confirms a draft for user 2 *)
CreateSent ==
    \E dl \in DeadlineStamps :
        /\ Len(missions) < MaxMissions
        /\ Step(ai_confirm(DB, 1, 2, dl, 3, FALSE))

SpecDeliver == Init /\ [][CreateSent \/ HandlerSent \/ Tick \/ SweepSent]_vars

(***************************************************************************)
(* Properties                                                              *)
(***************************************************************************)
RECURSIVE BagCount(_, _)
BagCount(B, S) ==
    IF S = {} THEN 0
    ELSE LET e == CHOOSE x \in S : TRUE
         IN CopiesIn(e, B) + BagCount(B, S \ {e})

(* number of ledger entries that reward the approval of mission mid *)
RewardEntries(mid) ==
    BagCount(karma_log, {e \in BagToSet(karma_log) :
                            e.reason = "mission_done" /\ e.mid = mid})

(* C1: however many times the approve button of a mission is delivered,    *)
(* the ledger holds at most one reward entry for that mission, so its      *)
(* difficulty is credited exactly once.                                    *)
C1_RewardCreditedOnce == \A mid \in MissionIds : RewardEntries(mid) <= 1

(* C2: a mission whose status is DONE, CANCELLED, CANCELLED_ADMIN or        *)
(* DECLINED keeps that status in every later step.                         *)
C2_TerminalStatusFinal ==
    [][\A mid \in 1 .. Len(missions) :
          missions[mid].status \in TerminalStatuses
              => missions'[mid].status = missions[mid].status]_vars

RECURSIVE DeltaSum(_, _)
DeltaSum(B, S) ==
    IF S = {} THEN 0
    ELSE LET e == CHOOSE x \in S : TRUE
         IN e.delta * CopiesIn(e, B) + DeltaSum(B, S \ {e})

(* sum of the deltas of the ledger entries recorded for user u *)
LedgerSum(u) == DeltaSum(karma_log, {e \in BagToSet(karma_log) : e.tg_id = u})

(* C3: the stored karma of every user equals the sum of the deltas of the  *)
(* ledger entries recorded for that user.                                  *)
C3_KarmaIsLedgerSum ==
    \A u \in Users : users[u].exists => users[u].karma = LedgerSum(u)

(* missions the sweep at time t finds with the deadline passed and not yet *)
(* marked overdue                                                          *)
StaleMissions(d, t) ==
    {mid \in _fetch_active_missions(d) :
        /\ d.missions[mid].deadline_ts - t <= 0
        /\ d.missions[mid].reminder_stage # "overdue"}

OverdueEvents(d, mid) == CopiesIn(Event("overdue", mid), d.events)

(* ledger entries of the overdue penalty recorded for user tg *)
OverduePenalties(d, tg) ==
    BagCount(d.karma_log, {e \in BagToSet(d.karma_log) :
                              e.reason = "overdue" /\ e.tg_id = tg})

(* stale missions of which tg holds an assignment row *)
StaleOf(d, t, tg) == {mid \in StaleMissions(d, t) : HasRow(d, mid, tg)}

(* C4: two sweeps in immediate succession (the second at the same instant  *)
(* or one check interval later) over a mission whose deadline has passed   *)
(* record exactly one overdue event for it and exactly one overdue penalty *)
(* entry per assignee: the first sweep records them, the second no longer  *)
(* picks the mission up and changes no karma on its account.               *)
C4_SweepTwicePenalizesOnce ==
    \A t2 \in {now, now + CHECK_INTERVAL_SEC} :
        LET d1 == start_reminders_loop(DB, now)
            d2 == start_reminders_loop(d1, t2)
        IN /\ \A mid \in StaleMissions(DB, now) :
                 /\ mid \notin StaleMissions(d1, t2)
                 /\ OverdueEvents(d1, mid) = OverdueEvents(DB, mid) + 1
                 /\ OverdueEvents(d2, mid) = OverdueEvents(DB, mid) + 1
           /\ \A tg \in Users :
                 /\ OverduePenalties(d1, tg)
                       = OverduePenalties(DB, tg) + Cardinality(StaleOf(DB, now, tg))
                 /\ OverduePenalties(d2, tg)
                       = OverduePenalties(d1, tg) + Cardinality(StaleOf(d1, t2, tg))
           /\ StaleMissions(d1, t2) = {} => d2.users = d1.users

(* a sweep has just marked mission 1 overdue: one event, one penalty *)
C4_Witness ==
    /\ Len(missions) >= 1
    /\ missions[1].status = "OVERDUE"
    /\ Reminder(1, "overdue") \in reminders
    /\ OverdueEvents(DB, 1) = 1
    /\ OverduePenalties(DB, 2) = 1
    /\ users[2].karma < 0

(* C5: a sweep that finds a mission with no reminder stage recorded and    *)
(* between one and five hours left sends exactly one reminder for it, the  *)
(* 5h one, and records stage 5h; the 24h stage is neither sent nor         *)
(* recorded.                                                               *)
C5_SkipsToMostAdvancedStage ==
    \A mid \in _fetch_active_missions(DB) :
        LET left == missions[mid].deadline_ts - now
            d1 == start_reminders_loop(DB, now)
        IN (missions[mid].reminder_stage = "" /\ left > 1 * Hour /\ left <= 5 * Hour)
              => /\ d1.missions[mid].reminder_stage = "5h"
                 /\ {r \in d1.reminders : r.mission_id = mid} = {Reminder(mid, "5h")}

(* store d has the status, deadline and extension count of mission mid and *)
(* the karma of every user as they are now                                 *)
MissionAndKarmaKept(d, mid) ==
    /\ d.missions[mid].status = missions[mid].status
    /\ d.missions[mid].deadline_ts = missions[mid].deadline_ts
    /\ d.missions[mid].extension_count = missions[mid].extension_count
    /\ \A u \in Users : d.users[u].karma = users[u].karma

(* C6: an event delivered in a status for which the transition table has   *)
(* no row (accept or decline outside OPEN, report outside IN_PROGRESS and  *)
(* REWORK, approve or reject outside REVIEW, postponement outside OPEN and *)
(* IN_PROGRESS) leaves status, deadline, extension count and all karma     *)
(* unchanged.                                                              *)
C6_OffTableEventRejected ==
    \A mid \in 1 .. Len(missions), actor \in Users :
        LET st == missions[mid].status
        IN /\ st # "OPEN" =>
                 /\ MissionAndKarmaKept(assign_accept(DB, mid, actor), mid)
                 /\ MissionAndKarmaKept(assign_decline(DB, mid, actor), mid)
           /\ st \notin {"IN_PROGRESS", "REWORK"} =>
                 /\ state[actor].await_report_for_mid = mid
                       => MissionAndKarmaKept(receive_report(DB, actor), mid)
                 /\ MissionAndKarmaKept(
                        mission_report_finish(DB, "send", mid, actor), mid)
           /\ st # "REVIEW" =>
                 /\ MissionAndKarmaKept(
                        cb_review_approve(DB, mid, actor, "ok", TRUE), mid)
                 /\ state[actor].await_reject_reason_for_mid = mid
                       => MissionAndKarmaKept(take_reject_reason(DB, actor, now), mid)
           /\ st \notin {"OPEN", "IN_PROGRESS"} =>
                 \A days \in DaysInputs :
                     MissionAndKarmaKept(
                        ui_cb_postpone_days(DB, mid, days, actor, now), mid)

(* C7: accept, decline, report submission and postponement invoked by a    *)
(* user who holds no assignment row of the mission leave its status,       *)
(* deadline, extension count, the assignment rows and all karma unchanged. *)
C7_OnlyAssigneeActs ==
    \A mid \in 1 .. Len(missions), actor \in Users :
        ~ HasRow(DB, mid, actor) =>
            \A d \in {assign_accept(DB, mid, actor),
                       assign_decline(DB, mid, actor),
                       receive_report(DB, actor),
                       mission_report_finish(DB, "send", mid, actor),
                       mission_action(DB, mid, "progress", actor)}
                   \cup {ui_cb_postpone_days(DB, mid, days, actor, now) :
                            days \in DaysInputs} :
                /\ MissionAndKarmaKept(d, mid)
                /\ d.assignments = assignments

(* C8: approve, reject for rework, cancel and admin delete invoked by a     *)
(* user who is not an admin leave the status of the mission and all karma  *)
(* unchanged.                                                              *)
C8_OnlyAdminCloses ==
    \A mid \in 1 .. Len(missions), actor \in Users :
        ~ is_admin(DB, actor) =>
            \A d \in {cb_review_approve(DB, mid, actor, "ok", TRUE),
                       take_reject_reason(DB, actor, now),
                       mission_cancel_cb(DB, mid, actor),
                       delete_no_penalty(DB, mid, actor)}
                   \cup {delete_with_penalty(DB, mid, performer, actor) :
                            performer \in {0} \cup Users} :
                /\ d.missions[mid].status = missions[mid].status
                /\ \A u \in Users : d.users[u].karma = users[u].karma

(* calls for user u whose transaction has committed *)
CommittedCalls(u) ==
    {i \in 1 .. Len(calls) :
        calls[i].tg_id = u /\ calls[i].pc \in {"committed", "read", "done"}}

RECURSIVE CallSum(_)
CallSum(S) ==
    IF S = {} THEN 0
    ELSE LET i == CHOOSE x \in S : TRUE
         IN calls[i].delta + CallSum(S \ {i})

(* karma of u before the calls, and the ledger entries the calls added *)
SeedOf(u) == DeltaSum(karma_log, {e \in BagToSet(karma_log) :
                                    e.tg_id = u /\ e.reason = "seed"})

CallEntries(u) == BagCount(karma_log, {e \in BagToSet(karma_log) :
                                         e.tg_id = u /\ e.reason = "call"})

(* C9: whatever the interleaving of concurrent add_karma_tg calls for an   *)
(* existing user, the karma of the user is the karma before the calls plus *)
(* the deltas of the calls that have committed, and the ledger holds one   *)
(* new entry per committed call; when all N calls are through, karma is    *)
(* the initial karma plus d1 + ... + dN with exactly N new entries.        *)
C9_ConcurrentDeltasAllCounted ==
    \A u \in Users :
        users[u].exists =>
            /\ users[u].karma = SeedOf(u) + CallSum(CommittedCalls(u))
            /\ CallEntries(u) = Cardinality(CommittedCalls(u))

(* three calls for user 2 have run to the end *)
C9_Witness ==
    /\ Len(calls) >= 3
    /\ \A i \in 1 .. Len(calls) : calls[i].tg_id = 2 /\ calls[i].pc = "done"
    /\ CallEntries(2) = Len(calls)
    /\ users[2].karma = SeedOf(2) + CallSum(1 .. Len(calls))
    /\ users[2].karma # SeedOf(2)

(* C10: whenever no add_karma_tg call is in progress, the stored rank of   *)
(* every user is rank_for of the stored karma of that user.                *)
C10_RankMatchesKarma ==
    (\A i \in 1 .. Len(calls) : calls[i].pc = "done")
        => \A u \in Users :
               users[u].exists => users[u].rank = rank_for(users[u].karma)

(* C11: once at least two concurrent add_karma_tg calls for a user have    *)
(* all returned, the stored rank of that user is rank_for of the final     *)
(* karma: no recomputation leaves behind a rank computed from a karma      *)
(* value that another call has superseded.                                 *)
C11_RankFreshAfterConcurrentCalls ==
    \A u \in CallTargets :
        (/\ Cardinality({i \in 1 .. Len(calls) : calls[i].tg_id = u}) >= 2
         /\ \A i \in 1 .. Len(calls) : calls[i].pc = "done")
            => users[u].rank = rank_for(users[u].karma)

(* ledger entries of the admin delete penalty of mission mid *)
DeletePenaltyEntries(mid) ==
    BagCount(karma_log, {e \in BagToSet(karma_log) :
                            e.reason = "admin_delete" /\ e.mid = mid})

(* ledger entries of the overdue penalty *)
OverduePenaltyEntries ==
    BagCount(karma_log, {e \in BagToSet(karma_log) : e.reason = "overdue"})

(* run i and run j worked on one mission at the same time and both ran to  *)
(* their end                                                               *)
RacedToEnd(i, j) ==
    /\ calls[i].mid = calls[j].mid
    /\ calls[i].overlap /\ calls[j].overlap
    /\ calls[i].todo = << >> /\ calls[j].todo = << >>
    /\ ~ calls[i].aborted /\ ~ calls[j].aborted

(* C12: when an approve ran concurrently with an admin delete with penalty *)
(* or with the overdue marking of the reminder loop on the same mission    *)
(* and both have returned, the final status and the ledger agree: a        *)
(* mission left CANCELLED_ADMIN or OVERDUE has no approval reward entry,   *)
(* and a mission left DONE has no admin delete or overdue penalty entry.   *)
C12_ConcurrentOutcomeConsistent ==
    \A i, j \in 1 .. Len(calls) :
        (/\ calls[i].kind = "approve"
         /\ calls[j].kind \in {"delete", "overdue"}
         /\ RacedToEnd(i, j))
            => LET mid == calls[i].mid
               IN /\ missions[mid].status \in {"CANCELLED_ADMIN", "OVERDUE"}
                        => RewardEntries(mid) = 0
                  /\ missions[mid].status = "DONE"
                        => /\ DeletePenaltyEntries(mid) = 0
                           /\ OverduePenaltyEntries = 0

(* C13: a single run of approve, decline, postpone, overdue marking or     *)
(* admin delete with penalty that is over, completed or aborted at any     *)
(* point, leaves the tables either as they were when it began or as the    *)
(* uninterrupted handler leaves them: status change, ledger entry and      *)
(* event together or none of them.                                         *)
C13_TransitionAllOrNothing ==
    (Len(calls) = 1 /\ calls[1].todo = << >>)
        => \/ Tables(DB) = calls[1].pre
           \/ Tables(DB) = calls[1].full

(* a run that was not aborted leaves what the handler leaves *)
RunsToFull ==
    (Len(calls) = 1 /\ calls[1].todo = << >> /\ ~ calls[1].aborted)
        => Tables(DB) = calls[1].full

(* C14: from a newly created mission of difficulty d, the accept of the    *)
(* assignee gives IN_PROGRESS, the report of the assignee then gives       *)
(* REVIEW, and the approve of an admin then gives DONE with the karma of   *)
(* the assignee raised by exactly d and closed_at set.                     *)
C14_AcceptReportApprove ==
    \A mid \in 1 .. Len(missions), admin \in Users :
        LET a == _mission_row_assignee(DB, mid)
            d1 == assign_accept(DB, mid, a)
            d2 == receive_report(cb_done_request_report(d1, mid, a), a)
            d3 == cb_review_approve(d2, mid, admin, "ok", TRUE)
        IN (/\ missions[mid].status = "OPEN"
            /\ a \in Users /\ users[a].exists
            /\ is_admin(DB, admin))
               => /\ d1.missions[mid].status = "IN_PROGRESS"
                  /\ d2.missions[mid].status = "REVIEW"
                  /\ d3.missions[mid].status = "DONE"
                  /\ d3.users[a].karma = users[a].karma + missions[mid].difficulty
                  /\ d3.missions[mid].closed_at # Null

(* C15: a decline delivered a second time for the same mission changes no  *)
(* karma and adds no ledger entry: the assignee carries the decline        *)
(* penalty of a mission once.                                              *)
C15_DeclinePenalizedOnce ==
    \A mid \in 1 .. Len(missions) :
        LET a == _mission_row_assignee(DB, mid)
            d1 == assign_decline(DB, mid, a)
            d2 == assign_decline(d1, mid, a)
        IN (a \in Users /\ users[a].exists)
               => /\ d2.users = d1.users
                  /\ d2.karma_log = d1.karma_log

(* the decline penalty of the policy: household tasks cost 3, 4 or 5 by    *)
(* difficulty, every other task costs 2                                    *)
DeclineTier(difficulty, household) ==
    IF ~ household THEN 0 - 2
    ELSE IF difficulty <= 1 THEN 0 - 3
    ELSE IF difficulty = 2 THEN 0 - 4
    ELSE 0 - 5

(* C16: a decline by the assignee sets the status to DECLINED and lowers   *)
(* the karma of the assignee by 3, 4 or 5 for a household task of          *)
(* difficulty at most 1, equal to 2, or at least 3, and by 2 for any other *)
(* task, with one ledger entry of that amount.                             *)
C16_DeclinePenaltyTiers ==
    \A mid \in 1 .. Len(missions) :
        LET a == _mission_row_assignee(DB, mid)
            pen == DeclineTier(missions[mid].difficulty, missions[mid].household)
            d1 == assign_decline(DB, mid, a)
        IN (a \in Users /\ users[a].exists)
               => /\ d1.missions[mid].status = "DECLINED"
                  /\ d1.users[a].karma = users[a].karma + pen
                  /\ CopiesIn(Entry(a, pen, "decline", 0), d1.karma_log)
                        = CopiesIn(Entry(a, pen, "decline", 0), karma_log) + 1
                  /\ BagCardinality(d1.karma_log) = BagCardinality(karma_log) + 1

(* the assignee has declined a household task of difficulty 1 *)
C16_Witness ==
    /\ Len(missions) >= 1
    /\ missions[1].status = "DECLINED"
    /\ missions[1].household /\ missions[1].difficulty = 1
    /\ users[2].karma = 0 - 3
    /\ CopiesIn(Entry(2, 0 - 3, "decline", 0), karma_log) = 1

(* C17: a postponement by 1, 2 or 3 days requested by the assignee of a    *)
(* mission that has a deadline moves the deadline by exactly days * 86400  *)
(* seconds, raises extension_count by exactly 1, keeps the status, and     *)
(* changes the karma of the assignee by 0, -1, -2 respectively.            *)
C17_PostponeByDays ==
    \A mid \in 1 .. Len(missions), days \in {1, 2, 3} :
        LET a == _mission_row_assignee(DB, mid)
            d1 == ui_cb_postpone_days(DB, mid, days, a, now)
        IN (a \in Users /\ users[a].exists /\ missions[mid].deadline_ts # Null)
               => /\ d1.missions[mid].deadline_ts
                        = missions[mid].deadline_ts + days * 86400
                  /\ d1.missions[mid].extension_count
                        = missions[mid].extension_count + 1
                  /\ d1.missions[mid].status = missions[mid].status
                  /\ d1.users[a].karma = users[a].karma + (1 - days)

(* the assignee has postponed mission 1 by three days *)
C17_Witness ==
    /\ Len(missions) >= 1
    /\ missions[1].extension_count = 1
    /\ missions[1].deadline_ts = 26 * Hour + 3 * 86400
    /\ users[2].karma = 0 - 2
    /\ CopiesIn(Event("postpone_days", 1), events) = 1

(* C18: a postponement whose day count is not 1, 2 or 3 leaves deadline,   *)
(* extension count and reminder stage of the mission and the karma of      *)
(* every user unchanged.                                                   *)
C18_BadDayCountRejected ==
    \A mid \in 1 .. Len(missions), days \in DaysInputs \ {1, 2, 3}, actor \in Users :
        LET d1 == ui_cb_postpone_days(DB, mid, days, actor, now)
        IN /\ d1.missions[mid].deadline_ts = missions[mid].deadline_ts
           /\ d1.missions[mid].extension_count = missions[mid].extension_count
           /\ d1.missions[mid].reminder_stage = missions[mid].reminder_stage
           /\ \A u \in Users : d1.users[u].karma = users[u].karma

(* an id no mission row carries *)
GhostMid == Len(missions) + 1

(* C19: report submission, approve, postponement, cancel and admin delete  *)
(* invoked with an id that no mission carries leave users, missions,       *)
(* assignments, the karma log and the events unchanged.                    *)
C19_UnknownMissionRejected ==
    \A actor \in Users :
        \A d \in {mission_report_finish(DB, "send", GhostMid, actor),
                   cb_review_approve(DB, GhostMid, actor, "ok", TRUE),
                   mission_cancel_cb(DB, GhostMid, actor),
                   delete_no_penalty(DB, GhostMid, actor)}
               \cup {ui_cb_postpone_days(DB, GhostMid, days, actor, now) :
                        days \in DaysInputs}
               \cup {delete_with_penalty(DB, GhostMid, performer, actor) :
                        performer \in {0} \cup Users} :
            Tables(d) = Tables(DB)

(* the overdue penalty of the transition table *)
OverdueTier(extension_count) == IF extension_count >= 1 THEN 0 - 4 ELSE 0 - 3

(* C20: marking a mission overdue, as the reminder loop does for a mission *)
(* whose deadline has passed, sets its status to OVERDUE, logs one overdue *)
(* event for it, and lowers the karma of every assignee by 3 when the      *)
(* extension count is 0 and by 4 when it is 1 or more, with one ledger     *)
(* entry of that amount per assignee.                                      *)
C20_OverduePenaltyTiers ==
    \A mid \in StaleMissions(DB, now) :
        LET pen == OverdueTier(missions[mid].extension_count)
            d1 == mark_overdue_and_penalize(DB, mid)
        IN /\ d1.missions[mid].status = "OVERDUE"
           /\ OverdueEvents(d1, mid) = OverdueEvents(DB, mid) + 1
           /\ \A tg \in Users :
                 LET n == IF HasRow(DB, mid, tg) THEN 1 ELSE 0
                 IN /\ CopiesIn(Entry(tg, pen, "overdue", 0), d1.karma_log)
                          = CopiesIn(Entry(tg, pen, "overdue", 0), karma_log) + n
                    /\ users[tg].exists
                          => d1.users[tg].karma = users[tg].karma + n * pen
           /\ BagCardinality(d1.karma_log)
                 = BagCardinality(karma_log)
                     + Cardinality({tg \in Users : HasRow(DB, mid, tg)})

(* the sweep has marked overdue a mission that was never postponed *)
C20_Witness ==
    /\ Len(missions) >= 1
    /\ missions[1].status = "OVERDUE"
    /\ missions[1].extension_count = 0
    /\ Reminder(1, "overdue") \in reminders
    /\ CopiesIn(Event("overdue", 1), events) = 1
    /\ CopiesIn(Entry(2, 0 - 3, "overdue", 0), karma_log) = 1
    /\ users[2].karma = 0 - 3

(***************************************************************************)
(* C21: across sweeps with no postponement or rework in between, a         *)
(* mission's reminder stage only moves forward in the order                *)
(* none < 24h < 5h < 1h < overdue, and the notification of a stage is sent *)
(* at most once: a sweep sends at most one notification per mission, only  *)
(* for a stage after the current one, and leaves the mission at that stage;*)
(* the next sweep, whenever it runs, sends none of them again.             *)
(***************************************************************************)
LaterSweepTimes == {now, now + CHECK_INTERVAL_SEC, now + 22 * Hour}

StageOf(d, mid) == d.missions[mid].reminder_stage

SentFor(d, mid) == {r \in d.reminders : r.mission_id = mid}

C22_PostponeAndReworkResetStage ==
    \A mid \in CardIds :
        /\ \A actor \in Users, days \in 0 .. 4 :
              LET d1 == ui_cb_postpone_days(DB, mid, days, actor, now)
              IN d1.missions[mid].extension_count
                     > missions[mid].extension_count
                 => StageOf(d1, mid) = ""
        /\ \A actor \in Users :
              LET d1 == take_reject_reason(cb_review_reject(DB, mid, actor),
                                           actor, now)
              IN d1.missions[mid].status = "REWORK"
                     /\ d1.missions[mid].deadline_ts # missions[mid].deadline_ts
                 => StageOf(d1, mid) = ""

(* a mission has been postponed after the clock moved and is at stage none *)
C22_Witness ==
    /\ Len(missions) >= 1
    /\ missions[1].extension_count = 1
    /\ missions[1].reminder_stage = ""
    /\ BagIn(Event("postpone_days", 1), events)
    /\ now > 0
    /\ missions[1].deadline_ts - now <= 2 * 24 * Hour

(***************************************************************************)
(* C23: if processing one mission raises an error during a sweep, the      *)
(* remaining missions selected by that sweep are still processed in it: a  *)
(* sweep ends with at most the failing row left unprocessed.               *)
(***************************************************************************)
C23_ErrorKeepsRestOfSweep ==
    [][\A i \in 1 .. Len(calls) :
          (calls[i].pc = "sweep" /\ calls'[i].pc = "sleep")
              => Len(calls[i].queue) <= 1]_vars

(***************************************************************************)
(* C24: no reminder sweep starts while a previous sweep is still running:  *)
(* at most one loop task is between its fetch and its sleep.               *)
(***************************************************************************)
Sweeping == {i \in 1 .. Len(calls) : calls[i].pc = "sweep"}

C24_SweepsDoNotOverlap == Cardinality(Sweeping) <= 1

(* a later sweep is under way: rows are queued and an earlier sweep has    *)
(* already reminded a mission                                              *)
C24_Witness ==
    /\ Sweeping # {}
    /\ \E i \in Sweeping : Len(calls[i].queue) >= 1 /\ calls[i].t > 0
    /\ \E m \in 1 .. Len(missions) : missions[m].reminder_stage = "24h"

(***************************************************************************)
(* C27: under a fair scheduler every mission in an in-flight status (OPEN, *)
(* IN_PROGRESS, REVIEW or REWORK) whose deadline is set and has passed is  *)
(* eventually marked OVERDUE with reminder stage overdue.                  *)
(***************************************************************************)
InFlightStatuses == {"OPEN", "IN_PROGRESS", "REVIEW", "REWORK"}

PastDeadline(mid) ==
    /\ missions[mid].status \in InFlightStatuses
    /\ missions[mid].deadline_ts # Null
    /\ missions[mid].deadline_ts <= now

MarkedOverdue(mid) ==
    /\ missions[mid].status = "OVERDUE"
    /\ missions[mid].reminder_stage = "overdue"

C27_PastDeadlineEventuallyOverdue ==
    \A mid \in 1 .. LoopMissions : PastDeadline(mid) ~> MarkedOverdue(mid)

(* the same for the statuses the loop's SELECT names; it holds *)
FetchedPastDeadlineEventuallyOverdue ==
    \A mid \in 1 .. LoopMissions :
        (PastDeadline(mid) /\ missions[mid].status \in ActiveFetchStatuses)
            ~> MarkedOverdue(mid)

(***************************************************************************)
(* C25: creates by actors who are not admins, also when they arrive        *)
(* together, never leave an assignee with more than 10 active missions.    *)
(***************************************************************************)
C25_ActiveLimitHolds ==
    \A tg \in Users : ActiveCount(DB, tg, TerminalStatuses) <= ActiveLimit

(***************************************************************************)
(* C26: rejecting a report under REVIEW sets the status to REWORK, applies *)
(* the fixed rework penalty to the assignee's karma, extends the deadline  *)
(* by one day with no penalty for the extension itself, and logs one       *)
(* review_rejected event.                                                  *)
(***************************************************************************)
C26_RejectForRework ==
    \A mid \in CardIds, admin \in Users :
        LET a == _mission_row_assignee(DB, mid)
            d1 == take_reject_reason(cb_review_reject(DB, mid, admin), admin, now)
        IN (/\ missions[mid].status = "REVIEW"
            /\ missions[mid].deadline_ts # Null
            /\ a \in Users /\ users[a].exists
            /\ is_admin(DB, admin))
               => /\ d1.missions[mid].status = "REWORK"
                  /\ d1.users[a].karma = users[a].karma + REWORK_PENALTY
                  /\ d1.missions[mid].deadline_ts
                         = missions[mid].deadline_ts + 24 * Hour
                  /\ CopiesIn(Event("review_rejected", mid), d1.events)
                         = CopiesIn(Event("review_rejected", mid), events) + 1

(***************************************************************************)
(* C28: in every reachable state every mission's difficulty is an integer  *)
(* in 1..5, whichever creation path produced the mission.                  *)
(***************************************************************************)
C28_DifficultyInRange ==
    \A mid \in 1 .. Len(missions) : missions[mid].difficulty \in 1 .. 5

(* a mission stands at the top of the scale and one path has registered    *)
(* user 3                                                                  *)
C28_Witness ==
    /\ Len(missions) >= 1
    /\ missions[1].difficulty = 5
    /\ users[3].exists

(***************************************************************************)
(* C29: a mission's extension count never decreases under any sequence or  *)
(* interleaving of the tiered postponement, the legacy one-day             *)
(* postponement and the rework grace extension.                            *)
(***************************************************************************)
C29_ExtensionCountMonotone ==
    [][\A mid \in 1 .. LoopMissions :
          missions'[mid].extension_count >= missions[mid].extension_count]_vars

(***************************************************************************)
(* C30: rank_for is a total deterministic function of karma: every karma   *)
(* below 0 gets the negative rank; every karma from 0 gets the rank of its *)
(* hundred (0..99 the first, 100..199 the second, ...), the top rank from  *)
(* 1000 on; so over karma from 0 the rank index never falls as karma       *)
(* grows.                                                                  *)
(***************************************************************************)
RankIndex(r) == CHOOSE i \in 1 .. Len(RANK_NAMES) : RANK_NAMES[i] = r

TopRank == Len(RANK_NAMES)

C30_RankForByHundreds ==
    LET k == calls[1].karma
        r == calls[1].rank
    IN r # "" =>
        /\ r = rank_for(k)
        /\ r \in {NEGATIVE_RANK} \cup {RANK_NAMES[i] : i \in 1 .. TopRank}
        /\ k < 0 <=> r = NEGATIVE_RANK
        /\ k >= 0 =>
              /\ \A i \in 1 .. TopRank - 1 :
                    (r = RANK_NAMES[i]) <=> (100 * (i - 1) <= k /\ k < 100 * i)
              /\ (r = RANK_NAMES[TopRank]) <=> k >= 100 * (TopRank - 1)
              /\ \A k2 \in {k - 100, k - 1} :
                    k2 >= 0 => RankIndex(rank_for(k2)) <= RankIndex(r)

(* a karma past the last hundred of the table has been given the top rank *)
C30_Witness ==
    /\ calls[1].karma >= 100 * TopRank
    /\ calls[1].rank = RANK_NAMES[TopRank]

(***************************************************************************)
(* C31: after reset_all_karma completes, every user's karma is 0, every    *)
(* user's rank is the base rank, and the karma log is empty.               *)
(***************************************************************************)
C31_ResetZeroesEverything ==
    LET d1 == reset_all_karma(DB)
    IN /\ \A u \in Users :
            d1.users[u].karma = 0 /\ d1.users[u].rank = BaseRank
       /\ d1.karma_log = EmptyBag
       /\ d1.missions = missions
       /\ d1.events = events

(* a decline had been penalized and the reset has emptied the ledger *)
C31_Witness ==
    /\ Len(missions) >= 1
    /\ missions[1].status = "DECLINED"
    /\ karma_log = EmptyBag
    /\ \A u \in Users : users[u].karma = 0 /\ users[u].rank = BaseRank

(***************************************************************************)
(* C32: add_karma_tg called with a user id that has no user row either     *)
(* fails or is a no-op: it leaves the users table and the karma log        *)
(* unchanged.                                                              *)
(***************************************************************************)
C32_UnknownUserNoOp ==
    \A tg \in Users, delta \in {0 - 1, 5} :
        ~ users[tg].exists =>
            LET d1 == add_karma_tg(DB, tg, delta, "manual", 0)
            IN d1.users = users /\ d1.karma_log = karma_log

(***************************************************************************)
(* C33: create_mission inserts the mission (status OPEN, reminder stage    *)
(* none, extension count 0), one assignment row per assignee and one       *)
(* create event atomically: in no observable state does a mission exist    *)
(* without its assignment row and its create event.                        *)
(***************************************************************************)
C33_CreateIsAtomic ==
    /\ \A mid \in 1 .. Len(missions) :
          /\ missions[mid].status = "OPEN"
          /\ missions[mid].reminder_stage = ""
          /\ missions[mid].extension_count = 0
          /\ Cardinality({i \in 1 .. Len(assignments) :
                             assignments[i].mission_id = mid}) = 1
          /\ CopiesIn(Event("create", mid), events) = 1
    /\ Len(assignments) = Len(missions)
    /\ BagCardinality(events) = Len(missions)

(* one call has committed its mission, another failed after its INSERTs *)
C33_Witness ==
    /\ Len(missions) = 1
    /\ \E i \in 1 .. Len(calls) : calls[i].pc = "committed"
    /\ \E i \in 1 .. Len(calls) : calls[i].pc = "failed" /\ calls[i].done >= 1

(***************************************************************************)
(* C35: every successful status transition appends exactly one audit event *)
(* of the matching kind: accept -> accept, decline -> decline, report      *)
(* submission -> done_sent, approve -> review_approved, reject ->          *)
(* review_rejected, overdue marking -> overdue.                            *)
(***************************************************************************)
LoggedOnce(d1, mid, target, kind) ==
    (d1.missions[mid].status = target /\ missions[mid].status # target)
        => /\ CopiesIn(Event(kind, mid), d1.events)
                  = CopiesIn(Event(kind, mid), events) + 1
           /\ BagCardinality(d1.events) = BagCardinality(events) + 1

C35_TransitionLogsOneEvent ==
    \A mid \in CardIds, actor \in Users :
        /\ LoggedOnce(assign_accept(DB, mid, actor), mid, "IN_PROGRESS", "accept")
        /\ LoggedOnce(assign_decline(DB, mid, actor), mid, "DECLINED", "decline")
        /\ LoggedOnce(receive_report(cb_done_request_report(DB, mid, actor), actor),
                      mid, "REVIEW", "done_sent")
        /\ LoggedOnce(cb_review_approve(DB, mid, actor, "ok", TRUE),
                      mid, "DONE", "review_approved")
        /\ LoggedOnce(take_reject_reason(cb_review_reject(DB, mid, actor), actor, now),
                      mid, "REWORK", "review_rejected")
        /\ LoggedOnce(sweep_mission(DB, mid, now), mid, "OVERDUE", "overdue")

(***************************************************************************)
(* C36: estimate is a pure function: for every text and due-today flag the *)
(* difficulty is in 1..5, the urgency bonus is 1 if due today and 0        *)
(* otherwise, the total reward is the difficulty plus the bonus, and two   *)
(* calls with the same inputs return the same result whatever the store    *)
(* holds.                                                                  *)
(***************************************************************************)
C36_EstimateIsPure ==
    /\ \A i \in 1 .. Len(calls) :
          LET r == calls[i].decision
          IN /\ r.difficulty \in 1 .. 5
             /\ r.urgency_bonus = (IF calls[i].due_today THEN 1 ELSE 0)
             /\ r.total_reward = r.difficulty + r.urgency_bonus
    /\ \A i, j \in 1 .. Len(calls) :
          (calls[i].text = calls[j].text /\ calls[i].due_today = calls[j].due_today)
              => calls[i].decision = calls[j].decision

(* a long text about mixing, due today, was estimated twice, a user having *)
(* registered in between or before                                         *)
C36_Witness ==
    /\ Len(calls) = 2
    /\ calls[1].text = calls[2].text
    /\ calls[1].due_today /\ calls[2].due_today
    /\ calls[1].text.len > 80 /\ "mix" \in calls[1].text.matched
    /\ calls[1].decision.difficulty = 5
    /\ users[3].exists

(***************************************************************************)
(* C37: when a free-text submission is judged invalid, the author's karma  *)
(* takes the fixed penalty exactly once, exactly one appeal is recorded,   *)
(* and no mission is created.                                              *)
(***************************************************************************)
C37_InvalidTextPenalizedOnce ==
    \A actor \in AuthorInputs, assignee \in AssigneeInputs :
        LET d1 == _create_mission_from_text(DB, actor, FALSE, assignee, Null, 3, FALSE)
        IN /\ d1.users[actor].karma = users[actor].karma - 1
           /\ BagCardinality(d1.karma_log) = BagCardinality(karma_log) + 1
           /\ CopiesIn(Event("appeal", 0), d1.events)
                  = CopiesIn(Event("appeal", 0), events) + 1
           /\ BagCardinality(d1.events) = BagCardinality(events) + 1
           /\ d1.missions = missions
           /\ d1.assignments = assignments

(***************************************************************************)
(* C38: the reminder loop writes the OVERDUE status of a mission only if,  *)
(* at the moment of the write, the clock has reached the deadline the      *)
(* mission has then: a postponement that commits between the loop's read   *)
(* of the mission and its overdue write prevents the marking.              *)
(***************************************************************************)
C38_OverdueOnlyPastCurrentDeadline ==
    [][\A mid \in 1 .. Len(missions) :
          (/\ missions'[mid].status = "OVERDUE"
           /\ missions[mid].status # "OVERDUE"
           /\ missions[mid].deadline_ts # Null)
              => now >= missions[mid].deadline_ts]_vars

(***************************************************************************)
(* C39: after any set of successful postponements of one mission by        *)
(* d1..dN days, including postponements that run concurrently, the         *)
(* deadline is the original deadline plus (d1+...+dN) days and the         *)
(* extension count has grown by exactly N.                                 *)
(***************************************************************************)
RECURSIVE PostponedDays(_, _)
PostponedDays(mid, n) ==
    IF n = 0 THEN 0
    ELSE PostponedDays(mid, n - 1)
         + (IF calls[n].mid = mid /\ calls[n].pc = "done" THEN calls[n].days ELSE 0)

C39_PostponementsAddUp ==
    \A mid \in MissionIds :
        LET all == {i \in 1 .. Len(calls) : calls[i].mid = mid}
            first == CHOOSE i \in all : \A j \in all : i <= j
        IN (all # {} /\ \A i \in all : calls[i].pc = "done")
              => /\ missions[mid].deadline_ts
                        = calls[first].base + PostponedDays(mid, Len(calls)) * 24 * Hour
                 /\ missions[mid].extension_count
                        = calls[first].extension_count + Cardinality(all)

(***************************************************************************)
(* C34: a failed notification never rolls back or blocks a transition: the *)
(* status and the karma a transition leaves are the same whether the       *)
(* notifications it sends are delivered or fail.                           *)
(***************************************************************************)
SameOutcome(d1, d2) ==
    /\ [m \in 1 .. Len(d1.missions) |-> d1.missions[m].status]
           = [m \in 1 .. Len(d2.missions) |-> d2.missions[m].status]
    /\ [u \in Users |-> d1.users[u].karma] = [u \in Users |-> d2.users[u].karma]
    /\ d1.karma_log = d2.karma_log

C40_LostReminderNotRetried ==
    \A mid \in _fetch_active_missions(DB) :
        LET sent == sweep_row_sent(DB, FetchedRow(DB, mid), now, TRUE)
            lost == sweep_row_sent(DB, FetchedRow(DB, mid), now, FALSE)
        IN /\ lost.reminders = {}
           /\ StageOf(lost, mid) = StageOf(sent, mid)
           /\ \A r \in SentFor(sent, mid) : StageOf(lost, mid) = r.code
           /\ \A t2 \in LaterSweepTimes :
                 mid \in _fetch_active_missions(lost)
                    => SentFor(sweep_row_sent(lost, FetchedRow(lost, mid), t2, TRUE), mid)
                           \cap SentFor(sent, mid) = {}

(* the 24h reminder of a mission was lost and the mission is at stage 24h *)
C40_Witness ==
    /\ Len(missions) >= 1
    /\ missions[1].reminder_stage = "24h"
    /\ calls = << {Reminder(1, "24h")} >>
    /\ reminders = {}

====
